---------------------------- MODULE Spec2Model ----------------------------
(***************************************************************************)
(* The FusionAuth webhook receiver of fusionauth/assets/webhook-handler.ts *)
(* as a state machine: the Express route callback of                       *)
(* fusionAuthWebhookRouter.post('/fusionauth'), one action per statement   *)
(* group, with verifyWebhookSignature, dispatchEvent and the event         *)
(* handlers as operators.                                                  *)
(*                                                                         *)
(* Node runs the callback to completion: the handlers contain no await of  *)
(* real I/O, so everything from the callback's entry to the end of its     *)
(* catch block runs in one macrotask and its microtasks, and no other      *)
(* request's callback interleaves with it.  The model therefore holds one  *)
(* request in progress and counts the requests received so far.            *)
(*                                                                         *)
(* Requests whose bodies are read together are queued and their callbacks  *)
(* start in any order (SpecConc, SpecEnv).  login of client-setup.ts and   *)
(* the quick-start webhook handler of SKILL.md are operators applied alone *)
(* (SpecLogin, SpecLoginAll, SpecQuick), as are getSiteUrl and              *)
(* generateMetadata of the nextjs-og-image skill (SpecSite); the           *)
(* opengraph-image template is an element tree the renderer walks          *)
(* (SpecRender).  SpecDup records every delivery; SpecLive adds the        *)
(* fairness of the callback's steps.                                       *)
(*                                                                         *)
(* Strings are TLA+ strings.  The HMAC-SHA256 digests are the real ones,   *)
(* tabulated for the secrets and bodies of the model; JSON.parse is        *)
(* tabulated on the same bodies.                                           *)
(***************************************************************************)
EXTENDS Integers, Sequences, FiniteSets, TLC

(***************************************************************************)
(* JavaScript values.                                                      *)
(***************************************************************************)
UNDEF == [t |-> "undefined"]

NULL == [t |-> "null"]

Str(s) == [t |-> "string", v |-> s]

Num(s) == [t |-> "number", v |-> s]

Bool(s) == [t |-> "boolean", v |-> s]

Arr(items) == [t |-> "array", items |-> items]

Obj(props) == [t |-> "object", p |-> props]

(* ToBoolean: undefined, null, "", 0 and false are falsy. *)
Truthy(x) ==
    CASE x.t \in {"undefined", "null"} -> FALSE
      [] x.t = "string" -> x.v # ""
      [] x.t = "number" -> x.v # "0"
      [] x.t = "boolean" -> x.v = "true"
      [] OTHER -> TRUE

Nullish(x) == x.t \in {"undefined", "null"}

(* o.name on a value that is not nullish: a missing property, and any      *)
(* property of a primitive read here, is undefined.                        *)
Get(o, name) ==
    IF o.t = "object" /\ name \in DOMAIN o.p THEN o.p[name] ELSE UNDEF

(* o?.name *)
OptGet(o, name) == IF Nullish(o) THEN UNDEF ELSE Get(o, name)

(* The result of JSON.parse: a value, or a thrown SyntaxError. *)
Parsed(x) == [ok |-> TRUE, value |-> x]

SyntaxError == [ok |-> FALSE, value |-> UNDEF]

(***************************************************************************)
(* Secrets and request bodies.                                             *)
(***************************************************************************)
SecretA == "whsec-A"

SecretB == "whsec-B"

Keys == {SecretA, SecretB}

(* Request bodies as the bytes on the wire. *)
B_user_create == "{\"event\":{\"type\":\"user.create\",\"id\":\"e1\",\"user\":{\"id\":\"u1\",\"email\":\"a@b.com\"}}}"
B_user_create_ws == "{ \"event\": { \"type\": \"user.create\", \"id\": \"e1\", \"user\": { \"id\": \"u1\", \"email\": \"a@b.com\" } } }"
B_user_create_bare == "{\"event\":{\"type\":\"user.create\",\"id\":\"e2\"}}"
B_user_update == "{\"event\":{\"type\":\"user.update\",\"id\":\"e3\",\"user\":{\"id\":\"u1\",\"email\":\"a@b.com\"}}}"
B_user_update_bare == "{\"event\":{\"type\":\"user.update\",\"id\":\"e4\"}}"
B_user_delete == "{\"event\":{\"type\":\"user.delete\",\"id\":\"e5\",\"user\":{\"id\":\"u1\",\"email\":\"a@b.com\"}}}"
B_user_delete_bare == "{\"event\":{\"type\":\"user.delete\",\"id\":\"e6\"}}"
B_user_deactivate == "{\"event\":{\"type\":\"user.deactivate\",\"id\":\"e7\",\"user\":{\"id\":\"u1\",\"email\":\"a@b.com\"}}}"
B_user_deactivate_bare == "{\"event\":{\"type\":\"user.deactivate\",\"id\":\"e8\"}}"
B_login_success == "{\"event\":{\"type\":\"user.login.success\",\"id\":\"e9\",\"user\":{\"id\":\"u1\",\"email\":\"a@b.com\"},\"info\":{\"ipAddress\":\"10.0.0.1\"}}}"
B_login_success_bare == "{\"event\":{\"type\":\"user.login.success\",\"id\":\"e10\"}}"
B_login_failed == "{\"event\":{\"type\":\"user.login.failed\",\"id\":\"e11\",\"loginId\":\"a@b.com\",\"reason\":\"invalid\"}}"
B_login_failed_bare == "{\"event\":{\"type\":\"user.login.failed\",\"id\":\"e12\"}}"
B_registration_create == "{\"event\":{\"type\":\"user.registration.create\",\"id\":\"e13\",\"user\":{\"id\":\"u1\",\"email\":\"a@b.com\"},\"registration\":{\"applicationId\":\"app1\",\"roles\":[\"admin\"]}}}"
B_registration_create_noroles == "{\"event\":{\"type\":\"user.registration.create\",\"id\":\"e14\",\"user\":{\"id\":\"u1\",\"email\":\"a@b.com\"},\"registration\":{\"applicationId\":\"app1\"}}}"
B_registration_create_noreg == "{\"event\":{\"type\":\"user.registration.create\",\"id\":\"e15\",\"user\":{\"id\":\"u1\",\"email\":\"a@b.com\"}}}"
B_registration_create_bare == "{\"event\":{\"type\":\"user.registration.create\",\"id\":\"e16\"}}"
B_refresh_revoke == "{\"event\":{\"type\":\"jwt.refresh-token.revoke\",\"id\":\"e17\",\"userId\":\"u1\"}}"
B_refresh_revoke_bare == "{\"event\":{\"type\":\"jwt.refresh-token.revoke\",\"id\":\"e18\"}}"
B_password_breach == "{\"event\":{\"type\":\"user.password.breach\",\"id\":\"e19\",\"user\":{\"id\":\"u1\",\"email\":\"a@b.com\"}}}"
B_password_breach_bare == "{\"event\":{\"type\":\"user.password.breach\",\"id\":\"e20\"}}"
B_password_reset == "{\"event\":{\"type\":\"user.password.reset.success\",\"id\":\"e21\",\"user\":{\"id\":\"u1\",\"email\":\"a@b.com\"}}}"
B_password_reset_bare == "{\"event\":{\"type\":\"user.password.reset.success\",\"id\":\"e22\"}}"
B_x_unknown == "{\"event\":{\"type\":\"x.unknown\",\"id\":\"e23\"}}"
B_user_reactivate == "{\"event\":{\"type\":\"user.reactivate\",\"id\":\"e24\",\"user\":{\"id\":\"u1\",\"email\":\"a@b.com\"}}}"
B_user_create_upper == "{\"event\":{\"type\":\"User.Create\",\"id\":\"e25\",\"user\":{\"id\":\"u1\",\"email\":\"a@b.com\"}}}"
B_type_number == "{\"event\":{\"type\":42,\"id\":\"e26\"}}"
B_type_empty == "{\"event\":{\"type\":\"\",\"id\":\"e27\"}}"
B_type_null == "{\"event\":{\"type\":null,\"id\":\"e28\"}}"
B_type_zero == "{\"event\":{\"type\":0,\"id\":\"e30\"}}"
B_type_false == "{\"event\":{\"type\":false,\"id\":\"e31\"}}"
B_no_type == "{\"event\":{\"id\":\"e29\"}}"
B_event_null == "{\"event\":null}"
B_no_event == "{}"
B_json_null == "null"
B_json_number == "7"
B_not_json == "not valid json"
B_truncated == "{\"event\":{\"type\":\"user.create\""

RawBodies ==
    { B_user_create,
      B_user_create_ws,
      B_user_create_bare,
      B_user_update,
      B_user_update_bare,
      B_user_delete,
      B_user_delete_bare,
      B_user_deactivate,
      B_user_deactivate_bare,
      B_login_success,
      B_login_success_bare,
      B_login_failed,
      B_login_failed_bare,
      B_registration_create,
      B_registration_create_noroles,
      B_registration_create_noreg,
      B_registration_create_bare,
      B_refresh_revoke,
      B_refresh_revoke_bare,
      B_password_breach,
      B_password_breach_bare,
      B_password_reset,
      B_password_reset_bare,
      B_x_unknown,
      B_user_reactivate,
      B_user_create_upper,
      B_type_number,
      B_type_empty,
      B_type_null,
      B_type_zero,
      B_type_false,
      B_no_type,
      B_event_null,
      B_no_event,
      B_json_null,
      B_json_number,
      B_not_json,
      B_truncated }

JSONParseTable ==
    { <<B_user_create, Parsed(Obj([event |-> Obj([type |-> Str("user.create"), id |-> Str("e1"), user |-> Obj([id |-> Str("u1"), email |-> Str("a@b.com")])])]))>>,
      <<B_user_create_ws, Parsed(Obj([event |-> Obj([type |-> Str("user.create"), id |-> Str("e1"), user |-> Obj([id |-> Str("u1"), email |-> Str("a@b.com")])])]))>>,
      <<B_user_create_bare, Parsed(Obj([event |-> Obj([type |-> Str("user.create"), id |-> Str("e2")])]))>>,
      <<B_user_update, Parsed(Obj([event |-> Obj([type |-> Str("user.update"), id |-> Str("e3"), user |-> Obj([id |-> Str("u1"), email |-> Str("a@b.com")])])]))>>,
      <<B_user_update_bare, Parsed(Obj([event |-> Obj([type |-> Str("user.update"), id |-> Str("e4")])]))>>,
      <<B_user_delete, Parsed(Obj([event |-> Obj([type |-> Str("user.delete"), id |-> Str("e5"), user |-> Obj([id |-> Str("u1"), email |-> Str("a@b.com")])])]))>>,
      <<B_user_delete_bare, Parsed(Obj([event |-> Obj([type |-> Str("user.delete"), id |-> Str("e6")])]))>>,
      <<B_user_deactivate, Parsed(Obj([event |-> Obj([type |-> Str("user.deactivate"), id |-> Str("e7"), user |-> Obj([id |-> Str("u1"), email |-> Str("a@b.com")])])]))>>,
      <<B_user_deactivate_bare, Parsed(Obj([event |-> Obj([type |-> Str("user.deactivate"), id |-> Str("e8")])]))>>,
      <<B_login_success, Parsed(Obj([event |-> Obj([type |-> Str("user.login.success"), id |-> Str("e9"), user |-> Obj([id |-> Str("u1"), email |-> Str("a@b.com")]), info |-> Obj([ipAddress |-> Str("10.0.0.1")])])]))>>,
      <<B_login_success_bare, Parsed(Obj([event |-> Obj([type |-> Str("user.login.success"), id |-> Str("e10")])]))>>,
      <<B_login_failed, Parsed(Obj([event |-> Obj([type |-> Str("user.login.failed"), id |-> Str("e11"), loginId |-> Str("a@b.com"), reason |-> Str("invalid")])]))>>,
      <<B_login_failed_bare, Parsed(Obj([event |-> Obj([type |-> Str("user.login.failed"), id |-> Str("e12")])]))>>,
      <<B_registration_create, Parsed(Obj([event |-> Obj([type |-> Str("user.registration.create"), id |-> Str("e13"), user |-> Obj([id |-> Str("u1"), email |-> Str("a@b.com")]), registration |-> Obj([applicationId |-> Str("app1"), roles |-> Arr(<<Str("admin")>>)])])]))>>,
      <<B_registration_create_noroles, Parsed(Obj([event |-> Obj([type |-> Str("user.registration.create"), id |-> Str("e14"), user |-> Obj([id |-> Str("u1"), email |-> Str("a@b.com")]), registration |-> Obj([applicationId |-> Str("app1")])])]))>>,
      <<B_registration_create_noreg, Parsed(Obj([event |-> Obj([type |-> Str("user.registration.create"), id |-> Str("e15"), user |-> Obj([id |-> Str("u1"), email |-> Str("a@b.com")])])]))>>,
      <<B_registration_create_bare, Parsed(Obj([event |-> Obj([type |-> Str("user.registration.create"), id |-> Str("e16")])]))>>,
      <<B_refresh_revoke, Parsed(Obj([event |-> Obj([type |-> Str("jwt.refresh-token.revoke"), id |-> Str("e17"), userId |-> Str("u1")])]))>>,
      <<B_refresh_revoke_bare, Parsed(Obj([event |-> Obj([type |-> Str("jwt.refresh-token.revoke"), id |-> Str("e18")])]))>>,
      <<B_password_breach, Parsed(Obj([event |-> Obj([type |-> Str("user.password.breach"), id |-> Str("e19"), user |-> Obj([id |-> Str("u1"), email |-> Str("a@b.com")])])]))>>,
      <<B_password_breach_bare, Parsed(Obj([event |-> Obj([type |-> Str("user.password.breach"), id |-> Str("e20")])]))>>,
      <<B_password_reset, Parsed(Obj([event |-> Obj([type |-> Str("user.password.reset.success"), id |-> Str("e21"), user |-> Obj([id |-> Str("u1"), email |-> Str("a@b.com")])])]))>>,
      <<B_password_reset_bare, Parsed(Obj([event |-> Obj([type |-> Str("user.password.reset.success"), id |-> Str("e22")])]))>>,
      <<B_x_unknown, Parsed(Obj([event |-> Obj([type |-> Str("x.unknown"), id |-> Str("e23")])]))>>,
      <<B_user_reactivate, Parsed(Obj([event |-> Obj([type |-> Str("user.reactivate"), id |-> Str("e24"), user |-> Obj([id |-> Str("u1"), email |-> Str("a@b.com")])])]))>>,
      <<B_user_create_upper, Parsed(Obj([event |-> Obj([type |-> Str("User.Create"), id |-> Str("e25"), user |-> Obj([id |-> Str("u1"), email |-> Str("a@b.com")])])]))>>,
      <<B_type_number, Parsed(Obj([event |-> Obj([type |-> Num("42"), id |-> Str("e26")])]))>>,
      <<B_type_empty, Parsed(Obj([event |-> Obj([type |-> Str(""), id |-> Str("e27")])]))>>,
      <<B_type_null, Parsed(Obj([event |-> Obj([type |-> NULL, id |-> Str("e28")])]))>>,
      <<B_type_zero, Parsed(Obj([event |-> Obj([type |-> Num("0"), id |-> Str("e30")])]))>>,
      <<B_type_false, Parsed(Obj([event |-> Obj([type |-> Bool("false"), id |-> Str("e31")])]))>>,
      <<B_no_type, Parsed(Obj([event |-> Obj([id |-> Str("e29")])]))>>,
      <<B_event_null, Parsed(Obj([event |-> NULL]))>>,
      <<B_no_event, Parsed(Obj(<<>>))>>,
      <<B_json_null, Parsed(NULL)>>,
      <<B_json_number, Parsed(Num("7"))>>,
      <<B_not_json, SyntaxError>>,
      <<B_truncated, SyntaxError>> }

HmacTable ==
    { <<SecretA, B_user_create,
         "bc7727ef1ca724f54b594af9475fc06d903979838b46b4f0d2b608e275f71476",
         "BC7727EF1CA724F54B594AF9475FC06D903979838B46B4F0D2B608E275F71476">>,
      <<SecretA, B_user_create_ws,
         "dc67ab8565ecd0968041144ee5869bac7e6cc04513efcdab3dd9dfb2d9f8991b",
         "DC67AB8565ECD0968041144EE5869BAC7E6CC04513EFCDAB3DD9DFB2D9F8991B">>,
      <<SecretA, B_user_create_bare,
         "054420ebd5877ba6a1dc41846534f39f389294e8004aa0cdba3bee1d067794de",
         "054420EBD5877BA6A1DC41846534F39F389294E8004AA0CDBA3BEE1D067794DE">>,
      <<SecretA, B_user_update,
         "96301b8e5fa352bd52b2aeed4d1a1f4952ceda60f177fe3fa50e320f6b0d9b1f",
         "96301B8E5FA352BD52B2AEED4D1A1F4952CEDA60F177FE3FA50E320F6B0D9B1F">>,
      <<SecretA, B_user_update_bare,
         "155b34e3540189e5c9df0052693fd2faf59e712af90865f1051f3c2c86148509",
         "155B34E3540189E5C9DF0052693FD2FAF59E712AF90865F1051F3C2C86148509">>,
      <<SecretA, B_user_delete,
         "cdc7a026e202b0859b0d815cb2c0ceb5a3384c6b1ce7297590ef83c432f2f961",
         "CDC7A026E202B0859B0D815CB2C0CEB5A3384C6B1CE7297590EF83C432F2F961">>,
      <<SecretA, B_user_delete_bare,
         "636a9b5f0fb0c53ba563ef7a032c35120437316cfda112ba014fd98ccd0d98ef",
         "636A9B5F0FB0C53BA563EF7A032C35120437316CFDA112BA014FD98CCD0D98EF">>,
      <<SecretA, B_user_deactivate,
         "f55c63941ba0d00a5a05d553b5488768578fee4a6b52f80864b328a76cff4d70",
         "F55C63941BA0D00A5A05D553B5488768578FEE4A6B52F80864B328A76CFF4D70">>,
      <<SecretA, B_user_deactivate_bare,
         "2d1d05f8a7559bba73038c21933985f703adc668731f4c0c914fcb0f4f338934",
         "2D1D05F8A7559BBA73038C21933985F703ADC668731F4C0C914FCB0F4F338934">>,
      <<SecretA, B_login_success,
         "d6ae6432b778059d03a103a2ccb2405c307f43bdf39d58171cf4a0e3af41ea43",
         "D6AE6432B778059D03A103A2CCB2405C307F43BDF39D58171CF4A0E3AF41EA43">>,
      <<SecretA, B_login_success_bare,
         "4eb23f1183c969302251764e7d0a070e1626ba6e173ff575de7098260bbc12fa",
         "4EB23F1183C969302251764E7D0A070E1626BA6E173FF575DE7098260BBC12FA">>,
      <<SecretA, B_login_failed,
         "4a2c528cb3670f294fd869676cd6d8d215cc3bc42abef9d4bd5713d0500ec800",
         "4A2C528CB3670F294FD869676CD6D8D215CC3BC42ABEF9D4BD5713D0500EC800">>,
      <<SecretA, B_login_failed_bare,
         "a801f3f843d12f2dcf0cdeff1b66d57d63a9dd889e1dd0b620fcf003e66ed7f6",
         "A801F3F843D12F2DCF0CDEFF1B66D57D63A9DD889E1DD0B620FCF003E66ED7F6">>,
      <<SecretA, B_registration_create,
         "6f1bf2b9987d0a3c7381f2404b0fa6be43a2e014da0ec6df628996b484591f1a",
         "6F1BF2B9987D0A3C7381F2404B0FA6BE43A2E014DA0EC6DF628996B484591F1A">>,
      <<SecretA, B_registration_create_noroles,
         "74b87c616ea9790a56beab24248cbac30fefb9de6931ce1ceb32da84e1d58a4a",
         "74B87C616EA9790A56BEAB24248CBAC30FEFB9DE6931CE1CEB32DA84E1D58A4A">>,
      <<SecretA, B_registration_create_noreg,
         "174ac72a9f18be9fdb316cdd804d5cabb14bc32a8eaa2553beee90dadc3d920c",
         "174AC72A9F18BE9FDB316CDD804D5CABB14BC32A8EAA2553BEEE90DADC3D920C">>,
      <<SecretA, B_registration_create_bare,
         "dfbc9ba128033c0085e0f99b6fd9bccc5accdf0828b3c3e7ed126451da207f83",
         "DFBC9BA128033C0085E0F99B6FD9BCCC5ACCDF0828B3C3E7ED126451DA207F83">>,
      <<SecretA, B_refresh_revoke,
         "6686f43af555257dba68637c61daf4425ef3a77c51acf55f84aff82f32f3abfb",
         "6686F43AF555257DBA68637C61DAF4425EF3A77C51ACF55F84AFF82F32F3ABFB">>,
      <<SecretA, B_refresh_revoke_bare,
         "0705aac29d3fa8e49e2fbfc2926c76449a9d76170161696b4ec440fdec2c61ed",
         "0705AAC29D3FA8E49E2FBFC2926C76449A9D76170161696B4EC440FDEC2C61ED">>,
      <<SecretA, B_password_breach,
         "574d4b1c34831a0ec70161cdccc8fd23c8ffcaf19eaf76ce49adc8821e05a4ab",
         "574D4B1C34831A0EC70161CDCCC8FD23C8FFCAF19EAF76CE49ADC8821E05A4AB">>,
      <<SecretA, B_password_breach_bare,
         "39c123387eb26299cbedb552937b5b289e60944738205406a8d660a6b84b8964",
         "39C123387EB26299CBEDB552937B5B289E60944738205406A8D660A6B84B8964">>,
      <<SecretA, B_password_reset,
         "cc57e5d1b1a30a624bf4dca17ac99fd2f72e083c826266146ee01c2c885f999f",
         "CC57E5D1B1A30A624BF4DCA17AC99FD2F72E083C826266146EE01C2C885F999F">>,
      <<SecretA, B_password_reset_bare,
         "fe1fd7a606853b44c5c56d96ffa2268fe5cede4b6fe8a0dffb21e985c1ce1075",
         "FE1FD7A606853B44C5C56D96FFA2268FE5CEDE4B6FE8A0DFFB21E985C1CE1075">>,
      <<SecretA, B_x_unknown,
         "bc1a723bbc16d1da989135466a0b9e921fc3a9e5377266c083cd0f895aa2b91e",
         "BC1A723BBC16D1DA989135466A0B9E921FC3A9E5377266C083CD0F895AA2B91E">>,
      <<SecretA, B_user_reactivate,
         "ba192886b41aa74756491e3f3535c12edd9e2b8452a2fdb7271fa66869e8730a",
         "BA192886B41AA74756491E3F3535C12EDD9E2B8452A2FDB7271FA66869E8730A">>,
      <<SecretA, B_user_create_upper,
         "95dc5f31ee88c9efb5c0b6106d09f31438750370d7520f209886cbcdd4dea1c3",
         "95DC5F31EE88C9EFB5C0B6106D09F31438750370D7520F209886CBCDD4DEA1C3">>,
      <<SecretA, B_type_number,
         "8ace08ed7bc2a5de09b505b67714b613d69ea12ddd03544e81447ca0734269f7",
         "8ACE08ED7BC2A5DE09B505B67714B613D69EA12DDD03544E81447CA0734269F7">>,
      <<SecretA, B_type_empty,
         "d32785252e89b90b9447ac64780230ca28f7c8dca070c230e3594bd0695684e2",
         "D32785252E89B90B9447AC64780230CA28F7C8DCA070C230E3594BD0695684E2">>,
      <<SecretA, B_type_null,
         "4f35b7fa6a600858dd8985184d05f34e996340d790264d889c07124ba60d1f57",
         "4F35B7FA6A600858DD8985184D05F34E996340D790264D889C07124BA60D1F57">>,
      <<SecretA, B_type_zero,
         "ad43b92190b48baaf64fdde06d5e4c6c687de05f2014e1ddba6faa2c58935f9b",
         "AD43B92190B48BAAF64FDDE06D5E4C6C687DE05F2014E1DDBA6FAA2C58935F9B">>,
      <<SecretA, B_type_false,
         "e24a0086bd3389064bfce39329f25ef50668dd1852b67d524167bcf72a31412a",
         "E24A0086BD3389064BFCE39329F25EF50668DD1852B67D524167BCF72A31412A">>,
      <<SecretA, B_no_type,
         "75f3f06a2a5dce079aa2ff0992e811dead6b7c34cd05807e85db7842cbf040df",
         "75F3F06A2A5DCE079AA2FF0992E811DEAD6B7C34CD05807E85DB7842CBF040DF">>,
      <<SecretA, B_event_null,
         "46615dfce09461aabfe700cf872b71fe62898ba43c621e979972afa51dae962a",
         "46615DFCE09461AABFE700CF872B71FE62898BA43C621E979972AFA51DAE962A">>,
      <<SecretA, B_no_event,
         "210e517de161b27b9c10719675abd67d8ee6eb077e429a322ac052b68d5e1b0e",
         "210E517DE161B27B9C10719675ABD67D8EE6EB077E429A322AC052B68D5E1B0E">>,
      <<SecretA, B_json_null,
         "011906020cad7ea2897a7632071a6814f7822c4e777e25e8ca23f8e379c0502c",
         "011906020CAD7EA2897A7632071A6814F7822C4E777E25E8CA23F8E379C0502C">>,
      <<SecretA, B_json_number,
         "a119e4eda6a80dc37f3bac7d9fe288990b5ca7f21cd4524055519ccec314594e",
         "A119E4EDA6A80DC37F3BAC7D9FE288990B5CA7F21CD4524055519CCEC314594E">>,
      <<SecretA, B_not_json,
         "252b2790364a61df25e5b4dd300770b7432c1efdd4c2a728226a37f7f56d665c",
         "252B2790364A61DF25E5B4DD300770B7432C1EFDD4C2A728226A37F7F56D665C">>,
      <<SecretA, B_truncated,
         "bd39ffbf4752f1579c2c07519acf49405b19b2228e923ed9a80ee81cb26d8837",
         "BD39FFBF4752F1579C2C07519ACF49405B19B2228E923ED9A80EE81CB26D8837">>,
      <<SecretB, B_user_create,
         "649da81097d757e5a3b283c22583199f829158dd7b8263df98fabbf9ad41c9a7",
         "649DA81097D757E5A3B283C22583199F829158DD7B8263DF98FABBF9AD41C9A7">>,
      <<SecretB, B_user_create_ws,
         "1d7b02d201d579ffa7e929f265b09445c4cf84d058737d6c1a946119b7f93b59",
         "1D7B02D201D579FFA7E929F265B09445C4CF84D058737D6C1A946119B7F93B59">>,
      <<SecretB, B_user_create_bare,
         "fb0f7c46abaf4d9b3e5281bfc81e827032a37e9c33bca5eb3a6d8a7c3ff0bec8",
         "FB0F7C46ABAF4D9B3E5281BFC81E827032A37E9C33BCA5EB3A6D8A7C3FF0BEC8">>,
      <<SecretB, B_user_update,
         "ca9e9bafdf254cc901bd8c80d0f9715710a7f479647ae1989f60ead1efe42478",
         "CA9E9BAFDF254CC901BD8C80D0F9715710A7F479647AE1989F60EAD1EFE42478">>,
      <<SecretB, B_user_update_bare,
         "a4bd4b2e7d777cf21b7fdafc4d70accb322843d1b92539f8b1088f6366a6d2bd",
         "A4BD4B2E7D777CF21B7FDAFC4D70ACCB322843D1B92539F8B1088F6366A6D2BD">>,
      <<SecretB, B_user_delete,
         "8d55673a8cbf3400cd5c10075066100408aa5b065e120cb256d45b2714b1e010",
         "8D55673A8CBF3400CD5C10075066100408AA5B065E120CB256D45B2714B1E010">>,
      <<SecretB, B_user_delete_bare,
         "ddc42f9f3f650665cdd9fcdf2ef616f32dcafbc46c8893661940e961a60cb335",
         "DDC42F9F3F650665CDD9FCDF2EF616F32DCAFBC46C8893661940E961A60CB335">>,
      <<SecretB, B_user_deactivate,
         "51c22708c4781f057e1245f14b45d772a676df475e55111a825232558ec2536d",
         "51C22708C4781F057E1245F14B45D772A676DF475E55111A825232558EC2536D">>,
      <<SecretB, B_user_deactivate_bare,
         "593ef8e5276f99ec10cb75997dd53085d80de8dd32e35956b6d1924c319f2ca2",
         "593EF8E5276F99EC10CB75997DD53085D80DE8DD32E35956B6D1924C319F2CA2">>,
      <<SecretB, B_login_success,
         "89a7dbd07db3dcfa734cb53ea10ccb7999bcccc95c705ab75f83c0dec7037e8f",
         "89A7DBD07DB3DCFA734CB53EA10CCB7999BCCCC95C705AB75F83C0DEC7037E8F">>,
      <<SecretB, B_login_success_bare,
         "e8669a27a5ca77835fa3f2235dba58a5307b5443019c1803808428208efccf95",
         "E8669A27A5CA77835FA3F2235DBA58A5307B5443019C1803808428208EFCCF95">>,
      <<SecretB, B_login_failed,
         "a19a13d3b30c73dd0523f8508396be4ed89c44d5935a6b336efda50f980b38ee",
         "A19A13D3B30C73DD0523F8508396BE4ED89C44D5935A6B336EFDA50F980B38EE">>,
      <<SecretB, B_login_failed_bare,
         "faa78c1611f8492b7df496eead81e482f833cea77c1a3bea9809880af291c5b5",
         "FAA78C1611F8492B7DF496EEAD81E482F833CEA77C1A3BEA9809880AF291C5B5">>,
      <<SecretB, B_registration_create,
         "d4a0b8bcb711e47fdf596a7e1b14a468067dbcb745c82211342c6ca48d474624",
         "D4A0B8BCB711E47FDF596A7E1B14A468067DBCB745C82211342C6CA48D474624">>,
      <<SecretB, B_registration_create_noroles,
         "38e9ba49ba4fd58286b57305a494cd3854e9541f544bd936d59f772f82bbb457",
         "38E9BA49BA4FD58286B57305A494CD3854E9541F544BD936D59F772F82BBB457">>,
      <<SecretB, B_registration_create_noreg,
         "f10cba42df76bc3e95e3f595755e296c267be25dc743073a40b9ff42c4fb14ba",
         "F10CBA42DF76BC3E95E3F595755E296C267BE25DC743073A40B9FF42C4FB14BA">>,
      <<SecretB, B_registration_create_bare,
         "eaa2dc10cc918274418d9f8b89adff481857410c65efe242abb7e248256d2777",
         "EAA2DC10CC918274418D9F8B89ADFF481857410C65EFE242ABB7E248256D2777">>,
      <<SecretB, B_refresh_revoke,
         "0e9fe5dd3bb7a9f634c2d60ec064b21a6e6b55627afac152d936cd4de820bc44",
         "0E9FE5DD3BB7A9F634C2D60EC064B21A6E6B55627AFAC152D936CD4DE820BC44">>,
      <<SecretB, B_refresh_revoke_bare,
         "b36443740efc8854ee6ab68219dc866719ce6bd080e15339c99fe11337cbd58d",
         "B36443740EFC8854EE6AB68219DC866719CE6BD080E15339C99FE11337CBD58D">>,
      <<SecretB, B_password_breach,
         "72ec84117bcd5cc2273b89f55783280d5b07740d7a5cb0d988736c4aa4e966f3",
         "72EC84117BCD5CC2273B89F55783280D5B07740D7A5CB0D988736C4AA4E966F3">>,
      <<SecretB, B_password_breach_bare,
         "13fb77484812cf8102caa6f36a8f60db1a4e7da15b7d1c1a3e0bbd8137206aae",
         "13FB77484812CF8102CAA6F36A8F60DB1A4E7DA15B7D1C1A3E0BBD8137206AAE">>,
      <<SecretB, B_password_reset,
         "0f84ca926ce2c81892a05283b0d8ed2e5cd2e263c176a9bc1c9f33e24158c420",
         "0F84CA926CE2C81892A05283B0D8ED2E5CD2E263C176A9BC1C9F33E24158C420">>,
      <<SecretB, B_password_reset_bare,
         "8da283ac8ae23f964e1d53503f02eb31d4a8bd220a9963f6172d4ab74b7f096e",
         "8DA283AC8AE23F964E1D53503F02EB31D4A8BD220A9963F6172D4AB74B7F096E">>,
      <<SecretB, B_x_unknown,
         "e5276a5fc42e74ac5039d2fa657cd21d806e676060e3ea41450fa0030f6c078b",
         "E5276A5FC42E74AC5039D2FA657CD21D806E676060E3EA41450FA0030F6C078B">>,
      <<SecretB, B_user_reactivate,
         "531249d8c57fdc9ae023c47da34a9777f19affad0c598fbb83c84e2f06d34323",
         "531249D8C57FDC9AE023C47DA34A9777F19AFFAD0C598FBB83C84E2F06D34323">>,
      <<SecretB, B_user_create_upper,
         "d64c9275ad37206750ddbda805b78a2e5fa1ac0a0c7588e932ce8fe6ba2ae542",
         "D64C9275AD37206750DDBDA805B78A2E5FA1AC0A0C7588E932CE8FE6BA2AE542">>,
      <<SecretB, B_type_number,
         "b3adbad6876104f9f1bd0cc5c152dd3e2e48276418060b570bfcf50ca15f5d65",
         "B3ADBAD6876104F9F1BD0CC5C152DD3E2E48276418060B570BFCF50CA15F5D65">>,
      <<SecretB, B_type_empty,
         "6a1c99339af4b2424cabaff8a23b8157ce32ee31226e998441eb83e8cae0a053",
         "6A1C99339AF4B2424CABAFF8A23B8157CE32EE31226E998441EB83E8CAE0A053">>,
      <<SecretB, B_type_null,
         "a518a68136bed87a29c9074aaaaadaa06449b2c1b757c9350d4b1a3e598a47cf",
         "A518A68136BED87A29C9074AAAAADAA06449B2C1B757C9350D4B1A3E598A47CF">>,
      <<SecretB, B_type_zero,
         "d6a9d822b7a6f7fe150ac757fc3bb267e26b4d410c43d4664ae62aa4049d423e",
         "D6A9D822B7A6F7FE150AC757FC3BB267E26B4D410C43D4664AE62AA4049D423E">>,
      <<SecretB, B_type_false,
         "b61be4ebe975a9289aa09026a0bfe675a20713b4f3bcf157458e57de80a16644",
         "B61BE4EBE975A9289AA09026A0BFE675A20713B4F3BCF157458E57DE80A16644">>,
      <<SecretB, B_no_type,
         "f133c7743e6d269f868fed1d4a98f274045510929866e3abc4c7639cc4ebc102",
         "F133C7743E6D269F868FED1D4A98F274045510929866E3ABC4C7639CC4EBC102">>,
      <<SecretB, B_event_null,
         "4ddc963c82b8a6dbada39948fd352056e837a6a3cabc2da07051293bafa220d0",
         "4DDC963C82B8A6DBADA39948FD352056E837A6A3CABC2DA07051293BAFA220D0">>,
      <<SecretB, B_no_event,
         "31269f28d32bba58f5c85d4dcac70e5b815face5003ab363cb0bc2d1ecaf8751",
         "31269F28D32BBA58F5C85D4DCAC70E5B815FACE5003AB363CB0BC2D1ECAF8751">>,
      <<SecretB, B_json_null,
         "90d0dfc15400d9a7c8dd4ea2d5146aeb3e4ce28f489cb7450f21403bc918e10c",
         "90D0DFC15400D9A7C8DD4EA2D5146AEB3E4CE28F489CB7450F21403BC918E10C">>,
      <<SecretB, B_json_number,
         "84f6bb37d331c82a14a86a712cb091fb6cecd0a649f49595645d3045cc299ceb",
         "84F6BB37D331C82A14A86A712CB091FB6CECD0A649F49595645D3045CC299CEB">>,
      <<SecretB, B_not_json,
         "868a9eb00c9867f5b177276fe8b2f3d363b9d164122e0a3fbd01d4373a945ecd",
         "868A9EB00C9867F5B177276FE8B2F3D363B9D164122E0A3FBD01D4373A945ECD">>,
      <<SecretB, B_truncated,
         "d0e92014d42eeb5ed0ebed6a0221d145ba374e9619b8cd91646b3a9ff269ad62",
         "D0E92014D42EEB5ED0EBED6A0221D145BA374E9619B8CD91646B3A9FF269AD62">> }

(* The bodies a sender signs when verifyWebhookSignature is applied alone. *)
VerifyBodies ==
    { B_user_create, B_user_create_ws, B_user_delete, B_x_unknown, B_not_json }

(***************************************************************************)
(* Library functions, on the values of the model.                          *)
(***************************************************************************)
(* JSON.parse(text).  Text outside the table is what                       *)
(* ({}).toString('utf-8') gives, "[object Object]": not JSON.              *)
JSONParse(text) ==
    IF \E row \in JSONParseTable : row[1] = text
    THEN (CHOOSE row \in JSONParseTable : row[1] = text)[2]
    ELSE SyntaxError

(* crypto.createHmac('sha256', secret).update(bytes).digest('hex') *)
HmacSha256Hex(secret, bytes) ==
    (CHOOSE row \in HmacTable : row[1] = secret /\ row[2] = bytes)[3]

(* The same digest in uppercase hexadecimal (a sender's other encoding). *)
HmacSha256HexUpper(secret, bytes) ==
    (CHOOSE row \in HmacTable : row[1] = secret /\ row[2] = bytes)[4]

(* req.body after raw({ type: 'application/json' }): a Buffer of the bytes *)
(* received when the content type matches, and otherwise left unparsed,    *)
(* an object that is not a Buffer.                                         *)
Buffer(bytes) == [buffer |-> TRUE, bytes |-> bytes]

NotBuffer == [buffer |-> FALSE, bytes |-> "[object Object]"]

(* A middleware that reads the body whatever the content type. *)
RawMiddlewareAnyType(contentType, bytes) == Buffer(bytes)

RawMiddleware(contentType, bytes) ==
    IF contentType = "application/json" THEN Buffer(bytes) ELSE NotBuffer

(* crypto.timingSafeEqual(a, b): throws on inputs of different byte length *)
timingSafeEqual(a, b) ==
    IF Len(a) # Len(b)
    THEN [threw |-> TRUE, value |-> FALSE]
    ELSE [threw |-> FALSE, value |-> (a = b)]

(* A verifier that stops at the length check. *)
verifyLengthOnly(rawBody, signatureHeader, secret) ==
    /\ rawBody.buffer
    /\ Len(signatureHeader) = Len("sha256=" \o HmacSha256Hex(secret, rawBody.bytes))

(* A verifier that compares the hexadecimal digits without regard to case. *)
verifyIgnoringCase(rawBody, signatureHeader, secret) ==
    /\ rawBody.buffer
    /\ signatureHeader \in {"sha256=" \o HmacSha256Hex(secret, rawBody.bytes),
                            "sha256=" \o HmacSha256HexUpper(secret, rawBody.bytes)}

(***************************************************************************)
(* verifyWebhookSignature                                                  *)
(***************************************************************************)
(* hmac.update(rawBody) throws a TypeError when rawBody is not a Buffer;   *)
(* the catch block turns every throw into false.                           *)
verifyWebhookSignature(rawBody, signatureHeader, secret) ==
    IF ~rawBody.buffer
    THEN FALSE
    ELSE LET expected == "sha256=" \o HmacSha256Hex(secret, rawBody.bytes)
             a == signatureHeader
             b == expected
         IN  IF Len(a) # Len(b)
             THEN FALSE
             ELSE LET eq == timingSafeEqual(a, b)
                  IN  IF eq.threw THEN FALSE ELSE eq.value

(* The try block of verifyWebhookSignature (lines 62-72): what it returns,  *)
(* or the error it throws.  hmac.update throws a TypeError on a rawBody     *)
(* that is not a Buffer; timingSafeEqual throws a RangeError on unequal     *)
(* lengths.                                                                 *)
verifyTryBlockNoLengthTest(rawBody, signatureHeader, secret) ==
    IF ~rawBody.buffer
    THEN "TypeError"
    ELSE LET eq == timingSafeEqual(signatureHeader,
                                   "sha256=" \o HmacSha256Hex(secret, rawBody.bytes))
         IN  IF eq.threw THEN "RangeError" ELSE IF eq.value THEN "true" ELSE "false"

verifyTryBlock(rawBody, signatureHeader, secret) ==
    IF ~rawBody.buffer
    THEN "TypeError"
    ELSE LET expected == "sha256=" \o HmacSha256Hex(secret, rawBody.bytes)
         IN  IF Len(signatureHeader) # Len(expected)
             THEN "false"
             ELSE LET eq == timingSafeEqual(signatureHeader, expected)
                  IN  IF eq.threw THEN "RangeError"
                      ELSE IF eq.value THEN "true" ELSE "false"

(* The call as its caller sees it: the catch block (lines 73-75) turns a   *)
(* throw into false.                                                       *)
verifyWebhookSignatureOutcome(rawBody, signatureHeader, secret) ==
    LET r == verifyTryBlock(rawBody, signatureHeader, secret)
    IN  IF r \in {"TypeError", "RangeError"} THEN "false" ELSE r

(***************************************************************************)
(* Observable effects of a request, in the order they happen.              *)
(***************************************************************************)
(* res.status(status).json({ error }) or res.sendStatus(status) *)
Res(status, text) == [k |-> "res", status |-> status, text |-> text]

(* A handler starts executing. *)
Call(handler) == [k |-> "call", handler |-> handler]

(* console.log / console.warn / console.error; fields are the event's      *)
(* properties interpolated into the message.                               *)
Console(level, text, fields) ==
    [k |-> "console", level |-> level, text |-> text, fields |-> fields]

(* What an async function call leaves behind: the effects of its           *)
(* synchronous body, and whether its promise is rejected.                  *)
Returned(effects) == [effects |-> effects, threw |-> FALSE]

Thrown(effects) == [effects |-> effects, threw |-> TRUE]

(***************************************************************************)
(* Event handlers.  Reading a property of an undefined or null user (or    *)
(* registration) throws a TypeError before anything is logged.             *)
(***************************************************************************)
onUserCreate(event) ==
    LET user == Get(event, "user")
    IN  IF Nullish(user)
        THEN Thrown(<<Call("onUserCreate")>>)
        ELSE Returned(<<Call("onUserCreate"),
                        Console("log", "New user registered", {"user.email", "user.id"})>>)

onUserDelete(event) ==
    LET user == Get(event, "user")
    IN  IF Nullish(user)
        THEN Thrown(<<Call("onUserDelete")>>)
        ELSE Returned(<<Call("onUserDelete"),
                        Console("log", "User deleted", {"user.email", "user.id"})>>)

onUserUpdate(event) ==
    LET user == Get(event, "user")
    IN  IF Nullish(user)
        THEN Thrown(<<Call("onUserUpdate")>>)
        ELSE Returned(<<Call("onUserUpdate"),
                        Console("log", "User updated", {"user.id"})>>)

onLoginSuccess(event) ==
    LET user == Get(event, "user")
    IN  IF Nullish(user)
        THEN Thrown(<<Call("onLoginSuccess")>>)
        ELSE Returned(<<Call("onLoginSuccess"),
                        Console("log", "Login success", {"user.email", "info.ipAddress"})>>)

onLoginFailed(event) ==
    Returned(<<Call("onLoginFailed"),
               Console("warn", "Login failed", {"loginId", "info.ipAddress", "reason"})>>)

onRegistrationCreate(event) ==
    LET user == Get(event, "user")
        reg == Get(event, "registration")
    IN  IF \/ Nullish(user)
           \/ Nullish(reg)
           \/ Get(reg, "roles").t # "array"
        THEN Thrown(<<Call("onRegistrationCreate")>>)
        ELSE Returned(<<Call("onRegistrationCreate"),
                        Console("log", "User registered to app",
                                {"user.id", "registration.applicationId", "registration.roles"})>>)

onRefreshTokenRevoke(event) ==
    Returned(<<Call("onRefreshTokenRevoke"),
               Console("log", "All refresh tokens revoked for user", {"userId"})>>)

onPasswordBreach(event) ==
    LET user == Get(event, "user")
    IN  IF Nullish(user)
        THEN Thrown(<<Call("onPasswordBreach")>>)
        ELSE Returned(<<Call("onPasswordBreach"),
                        Console("warn", "BREACH DETECTED for user", {"user.email", "user.id"})>>)

onPasswordReset(event) ==
    LET user == Get(event, "user")
    IN  IF Nullish(user)
        THEN Thrown(<<Call("onPasswordReset")>>)
        ELSE Returned(<<Call("onPasswordReset"),
                        Console("log", "Password reset completed for", {"user.email"})>>)

(***************************************************************************)
(* dispatchEvent: switch (event.type), compared with ===.                  *)
(***************************************************************************)
(* event.type === text *)
TypeIs(event, text) ==
    LET type == Get(event, "type")
    IN  type.t = "string" /\ type.v = text

(* A default branch that throws on a type it does not know. *)
dispatchEventDefaultThrows(event) == Thrown(<<>>)

dispatchEventDefault(event) ==
    Returned(<<Console("log", "Unhandled event type", {"type", "id"})>>)

(* A switch without the 'user.deactivate' case label. *)
dispatchEventNoAlias(event) ==
    CASE TypeIs(event, "user.create") -> onUserCreate(event)
      [] TypeIs(event, "user.update") -> onUserUpdate(event)
      [] TypeIs(event, "user.delete") -> onUserDelete(event)
      [] TypeIs(event, "user.login.success") -> onLoginSuccess(event)
      [] TypeIs(event, "user.login.failed") -> onLoginFailed(event)
      [] TypeIs(event, "user.registration.create") -> onRegistrationCreate(event)
      [] TypeIs(event, "jwt.refresh-token.revoke") -> onRefreshTokenRevoke(event)
      [] TypeIs(event, "user.password.breach") -> onPasswordBreach(event)
      [] TypeIs(event, "user.password.reset.success") -> onPasswordReset(event)
      [] OTHER -> dispatchEventDefault(event)

dispatchEvent(event) ==
    CASE TypeIs(event, "user.create") -> onUserCreate(event)
      [] TypeIs(event, "user.update") -> onUserUpdate(event)
      [] TypeIs(event, "user.delete") -> onUserDelete(event)
      [] TypeIs(event, "user.deactivate") -> onUserDelete(event)
      [] TypeIs(event, "user.login.success") -> onLoginSuccess(event)
      [] TypeIs(event, "user.login.failed") -> onLoginFailed(event)
      [] TypeIs(event, "user.registration.create") -> onRegistrationCreate(event)
      [] TypeIs(event, "jwt.refresh-token.revoke") -> onRefreshTokenRevoke(event)
      [] TypeIs(event, "user.password.breach") -> onPasswordBreach(event)
      [] TypeIs(event, "user.password.reset.success") -> onPasswordReset(event)
      [] OTHER -> dispatchEventDefault(event)

(***************************************************************************)
(* login of fusionauth/assets/client-setup.ts.  result is the              *)
(* ClientResponse of fusionauth.login: statusCode, response, exception.    *)
(***************************************************************************)
(* result.exception?.message ?? 'Login failed' *)
LoginMessage(result) ==
    LET message == OptGet(result.exception, "message")
    IN  IF Nullish(message) THEN Str("Login failed") ELSE message

LoginError(result) ==
    [status |-> "error", code |-> result.statusCode, message |-> LoginMessage(result)]

(* A switch without the `case 213` label. *)
loginWithout213(result) ==
    CASE result.statusCode = 200 ->
            [status |-> "ok",
             token |-> Get(result.response, "token"),
             refreshToken |-> Get(result.response, "refreshToken"),
             userId |-> Get(Get(result.response, "user"), "id")]
      [] result.statusCode = 202 ->
            [status |-> "not_registered",
             userId |-> Get(Get(result.response, "user"), "id")]
      [] result.statusCode = 203 ->
            [status |-> "password_change",
             changePasswordId |-> Get(result.response, "changePasswordId")]
      [] result.statusCode = 212 ->
            [status |-> "verify_email"]
      [] result.statusCode = 242 ->
            [status |-> "mfa_required",
             twoFactorId |-> Get(result.response, "twoFactorId")]
      [] OTHER -> LoginError(result)

login(result) ==
    CASE result.statusCode = 200 ->
            [status |-> "ok",
             token |-> Get(result.response, "token"),
             refreshToken |-> Get(result.response, "refreshToken"),
             userId |-> Get(Get(result.response, "user"), "id")]
      [] result.statusCode = 202 ->
            [status |-> "not_registered",
             userId |-> Get(Get(result.response, "user"), "id")]
      [] result.statusCode = 203 ->
            [status |-> "password_change",
             changePasswordId |-> Get(result.response, "changePasswordId")]
      [] result.statusCode \in {212, 213} ->
            [status |-> "verify_email"]
      [] result.statusCode = 242 ->
            [status |-> "mfa_required",
             twoFactorId |-> Get(result.response, "twoFactorId")]
      [] OTHER -> LoginError(result)

(* An MFA step that takes every 2xx for a success. *)
loginMFAAny2xx(result) ==
    IF result.statusCode \in 200..299
    THEN [status |-> "ok",
          token |-> Get(result.response, "token"),
          refreshToken |-> Get(result.response, "refreshToken"),
          userId |-> Get(Get(result.response, "user"), "id")]
    ELSE [status |-> "error", code |-> result.statusCode,
          message |-> Str("MFA verification failed")]

loginMFA(result) ==
    IF result.statusCode = 200
    THEN [status |-> "ok",
          token |-> Get(result.response, "token"),
          refreshToken |-> Get(result.response, "refreshToken"),
          userId |-> Get(Get(result.response, "user"), "id")]
    ELSE [status |-> "error", code |-> result.statusCode,
          message |-> IF result.statusCode = 401
                      THEN Str("MFA code expired - please log in again")
                      ELSE IF result.statusCode = 421
                      THEN Str("Invalid MFA code")
                      ELSE Str("MFA verification failed")]

loginPasswordless(result) ==
    IF result.statusCode = 200
    THEN [status |-> "ok",
          token |-> Get(result.response, "token"),
          refreshToken |-> Get(result.response, "refreshToken"),
          userId |-> Get(Get(result.response, "user"), "id")]
    ELSE [status |-> "error", code |-> result.statusCode,
          message |-> Str("Passwordless login failed")]

(***************************************************************************)
(* The quick-start webhook handler of the fusionauth SKILL.md, section 9,  *)
(* and verifySignature of the webhook-events reference.                    *)
(***************************************************************************)
(* What a call did: returned a boolean, or threw. *)
ReturnedBool(b) == IF b THEN "true" ELSE "false"

(* Buffer.from(x) throws a TypeError on undefined;                         *)
(* crypto.timingSafeEqual throws a RangeError on different byte lengths.   *)
quickStartVerifyWebhookSignature(body, signature, secret) ==
    LET expected == HmacSha256Hex(secret, body)
    IN  IF signature.t # "string"
        THEN "TypeError"
        ELSE LET eq == timingSafeEqual(signature.v, "sha256=" \o expected)
             IN  IF eq.threw THEN "RangeError" ELSE ReturnedBool(eq.value)

verifySignature(rawBody, header, secret) ==
    LET expected == "sha256=" \o HmacSha256Hex(secret, rawBody)
    IN  IF header.t # "string"
        THEN "TypeError"
        ELSE LET eq == timingSafeEqual(header.v, expected)
             IN  IF eq.threw THEN "RangeError" ELSE ReturnedBool(eq.value)

(* The app.post callback: an exception thrown in a synchronous Express     *)
(* callback reaches the default error handler, which answers 500.          *)
quickStartHandler(request) ==
    LET verify == quickStartVerifyWebhookSignature(request.bytes, request.signature,
                                                   request.secret)
    IN  CASE verify \in {"TypeError", "RangeError"} ->
                [verify |-> verify, status |-> 500, parsed |-> FALSE]
          [] verify = "false" ->
                [verify |-> verify, status |-> 401, parsed |-> FALSE]
          [] OTHER ->
                IF JSONParse(request.bytes).ok
                THEN [verify |-> verify, status |-> 200, parsed |-> TRUE]
                ELSE [verify |-> verify, status |-> 500, parsed |-> FALSE]

(***************************************************************************)
(* getSiteUrl and generateMetadata of the nextjs-og-image SKILL.md         *)
(* (app/layout.tsx).  headersList.get gives null for an absent header and  *)
(* the value, which may be empty, for a present one.                       *)
(***************************************************************************)
startsWith(text, prefix) ==
    Len(text) >= Len(prefix) /\ SubSeq(text, 1, Len(prefix)) = prefix

(* a ?? b *)
Coalesce(a, b) == IF Nullish(a) THEN b ELSE a

getSiteUrl(forwardedHost, hostHeader, siteUrlEnv) ==
    LET host == Coalesce(forwardedHost, Coalesce(hostHeader, NULL))
    IN  IF Truthy(host)
        THEN Str((IF startsWith(host.v, "localhost") THEN "http" ELSE "https")
                 \o "://" \o host.v)
        ELSE Coalesce(siteUrlEnv, Str("https://example.com"))

(* new URL(siteUrl) throws a TypeError on the empty string. *)
generateMetadata(forwardedHost, hostHeader, siteUrlEnv) ==
    LET siteUrl == getSiteUrl(forwardedHost, hostHeader, siteUrlEnv).v
    IN  IF siteUrl = ""
        THEN [siteUrl |-> siteUrl, threw |-> TRUE, openGraph |-> "", twitter |-> ""]
        ELSE [siteUrl |-> siteUrl, threw |-> FALSE,
              openGraph |-> siteUrl \o "/opengraph-image",
              twitter |-> siteUrl \o "/opengraph-image"]

(***************************************************************************)
(* The element tree of assets/og-image-template.tsx in document order:     *)
(* tag, parent (0 for the root) and the entries of the style object.       *)
(***************************************************************************)
Template ==
    <<
       [tag |-> "div", parent |-> 0,
        style |-> <<<<"background", Str("#1a2b3c")>>, <<"width", Str("100%")>>, <<"height", Str("100%")>>, <<"display", Str("flex")>>, <<"flexDirection", Str("column")>>, <<"alignItems", Str("center")>>, <<"justifyContent", Str("center")>>, <<"fontFamily", Str("system-ui, sans-serif")>>, <<"position", Str("relative")>>, <<"overflow", Str("hidden")>>>>],
       [tag |-> "div", parent |-> 1,
        style |-> <<<<"position", Str("absolute")>>, <<"top", Num("-140")>>, <<"right", Num("-140")>>, <<"width", Num("520")>>, <<"height", Num("520")>>, <<"borderRadius", Str("50%")>>, <<"background", Str("rgba(110,199,232,0.07)")>>>>],
       [tag |-> "div", parent |-> 1,
        style |-> <<<<"position", Str("absolute")>>, <<"bottom", Num("-120")>>, <<"left", Num("-120")>>, <<"width", Num("400")>>, <<"height", Num("400")>>, <<"borderRadius", Str("50%")>>, <<"background", Str("rgba(232,197,71,0.05)")>>>>],
       [tag |-> "div", parent |-> 1,
        style |-> <<<<"display", Str("flex")>>, <<"flexDirection", Str("column")>>, <<"alignItems", Str("center")>>, <<"zIndex", Num("1")>>, <<"padding", Str("0 80px")>>, <<"width", Str("100%")>>>>],
       [tag |-> "img", parent |-> 4,
        style |-> <<<<"width", Num("86")>>, <<"height", Num("86")>>, <<"marginBottom", Num("28")>>, <<"objectFit", Str("contain")>>>>],
       [tag |-> "div", parent |-> 4,
        style |-> <<<<"background", Str("rgba(110,199,232,0.12)")>>, <<"border", Str("1px solid rgba(110,199,232,0.25)")>>, <<"borderRadius", Num("24")>>, <<"padding", Str("8px 22px")>>, <<"marginBottom", Num("32")>>, <<"display", Str("flex")>>, <<"alignItems", Str("center")>>>>],
       [tag |-> "span", parent |-> 6,
        style |-> <<<<"color", Str("#6EC7E8")>>, <<"fontSize", Num("16")>>, <<"fontWeight", Num("500")>>, <<"letterSpacing", Str("0.04em")>>>>],
       [tag |-> "#text", parent |-> 7,
        style |-> <<>>],
       [tag |-> "div", parent |-> 4,
        style |-> <<<<"display", Str("flex")>>, <<"flexDirection", Str("column")>>, <<"alignItems", Str("center")>>, <<"gap", Num("4")>>>>],
       [tag |-> "span", parent |-> 9,
        style |-> <<<<"color", Str("#ffffff")>>, <<"fontSize", Num("52")>>, <<"fontWeight", Num("700")>>, <<"textAlign", Str("center")>>, <<"lineHeight", Num("1.15")>>>>],
       [tag |-> "#text", parent |-> 10,
        style |-> <<>>],
       [tag |-> "span", parent |-> 9,
        style |-> <<<<"color", Str("#6EC7E8")>>, <<"fontSize", Num("52")>>, <<"fontWeight", Num("700")>>, <<"textAlign", Str("center")>>, <<"lineHeight", Num("1.15")>>>>],
       [tag |-> "#text", parent |-> 12,
        style |-> <<>>],
       [tag |-> "p", parent |-> 4,
        style |-> <<<<"color", Str("rgba(255,255,255,0.55)")>>, <<"fontSize", Num("20")>>, <<"textAlign", Str("center")>>, <<"marginTop", Num("24")>>, <<"marginBottom", Num("0")>>, <<"maxWidth", Num("720")>>, <<"lineHeight", Num("1.55")>>>>],
       [tag |-> "#text", parent |-> 14,
        style |-> <<>>],
       [tag |-> "div", parent |-> 1,
        style |-> <<<<"position", Str("absolute")>>, <<"bottom", Num("0")>>, <<"left", Num("0")>>, <<"right", Num("0")>>, <<"height", Num("5")>>, <<"background", Str("linear-gradient(90deg, #6EC7E8 0%, #A8E6CF 50%, #E8C547 100%)")>>>>],
       [tag |-> "div", parent |-> 1,
        style |-> <<<<"position", Str("absolute")>>, <<"bottom", Num("22")>>, <<"right", Num("44")>>, <<"display", Str("flex")>>, <<"alignItems", Str("center")>>, <<"gap", Num("7")>>>>],
       [tag |-> "div", parent |-> 17,
        style |-> <<<<"width", Num("6")>>, <<"height", Num("6")>>, <<"borderRadius", Str("50%")>>, <<"background", Str("#6EC7E8")>>>>],
       [tag |-> "span", parent |-> 17,
        style |-> <<<<"color", Str("rgba(255,255,255,0.28)")>>, <<"fontSize", Num("13")>>, <<"letterSpacing", Str("0.06em")>>>>],
       [tag |-> "#text", parent |-> 19,
        style |-> <<>>]
    >>

(* An integer number of pixels. *)
IsInteger(value) ==
    value.t = "number" /\ \A i \in 1..Len(value.v) : SubSeq(value.v, i, i) # "."

(* What the Satori gotchas reference says the renderer does not support:   *)
(* an image dimension that is not an integer, maxWidth, minWidth and       *)
(* maxHeight, a position of fixed, a display other than flex.              *)
Unsupported(tag, name, value) ==
    \/ tag = "img" /\ name \in {"width", "height"} /\ ~IsInteger(value)
    \/ name \in {"maxWidth", "minWidth", "maxHeight"}
    \/ name = "position" /\ value = Str("fixed")
    \/ name = "display" /\ value # Str("flex")

(***************************************************************************)
(* The receiver.                                                           *)
(***************************************************************************)
VARIABLES
    env,            \* process.env.FUSIONAUTH_WEBHOOK_SECRET
    env0,           \* its value when the process started
    deliveries,     \* an observer's record of the requests completed, with their effects
    nreq,           \* requests received so far
    pending,        \* requests whose body has been read and whose callback is queued
    handlerFailed,  \* a handler of an earlier or of this request has failed
    req,            \* the request in progress: content type, bytes, signature header
    pc,             \* the route callback's position (a line of the source)
    webhookSecret,  \* local of the callback, line 190
    payload,        \* local of the callback, line 208
    event,          \* local of the callback, line 215
    settled,        \* the promise of dispatchEvent(event)
    callback,       \* the promise of the async route callback
    flushed,        \* the response written has reached the transport
    trace,          \* the effects of the request in progress, in order
    vArgs,          \* verifyWebhookSignature applied alone: its arguments
    vRet,           \* ... and its return value
    lArgs,          \* login applied alone: the upstream ClientResponse
    lRet,           \* ... and its AuthResult
    qArgs,          \* the quick-start webhook handler applied alone: its request
    qRet,           \* ... and what it did
    sArgs,          \* getSiteUrl and generateMetadata applied alone: headers, environment
    sRet,           \* ... and the metadata
    og              \* the renderer's walk through the opengraph-image template

harness == <<vArgs, vRet, lArgs, lRet, qArgs, qRet, sArgs, sRet, og>>

vars == <<env, env0, deliveries, nreq, pending, handlerFailed, req, pc, webhookSecret, payload,
          event, settled, callback, flushed, trace, harness>>

recv == <<env, env0, deliveries, nreq, pending, handlerFailed, req, pc, webhookSecret, payload,
          event, settled, callback, flushed, trace>>

(* Requests received in one behaviour. *)
MaxRequests == 3

(* The values the environment variable can have at start: unset, empty, *)
(* or a secret.                                                          *)
EnvValues == {UNDEF, Str(""), Str(SecretA), Str(SecretB)}

ContentTypes == {"application/json", "text/plain"}

(* How a sender may encode the tag of msg under key. *)
Encodings == {"sha256=lower", "sha256=UPPER", "lower", "SHA256=lower"}

Encode(enc, key, msg) ==
    CASE enc = "sha256=lower" -> "sha256=" \o HmacSha256Hex(key, msg)
      [] enc = "sha256=UPPER" -> "sha256=" \o HmacSha256HexUpper(key, msg)
      [] enc = "lower" -> HmacSha256Hex(key, msg)
      [] enc = "SHA256=lower" -> "SHA256=" \o HmacSha256Hex(key, msg)

(* The X-FusionAuth-Signature headers a request with these bytes may    *)
(* carry: none, an empty one, a made-up one, and the tag of these bytes *)
(* or of other bytes (the body was changed in transit) under either     *)
(* secret in each encoding.                                             *)
SignatureHeaders(bytes) ==
    {UNDEF, Str(""), Str("sha256=deadbeef")}
    \cup {Str(Encode(enc, key, msg)) :
            enc \in Encodings, key \in Keys,
            msg \in {bytes, B_user_create, B_user_create_ws}}

NoRequest ==
    [contentType |-> "application/json", bytes |-> "", signature |-> UNDEF]

Unassigned == [assigned |-> FALSE, value |-> UNDEF]

NoArgs ==
    [rawBody |-> NotBuffer, signatureHeader |-> "", secret |-> "",
     enc |-> "none", key |-> "", msg |-> ""]

NoLoginArgs == [statusCode |-> 0, response |-> UNDEF, exception |-> UNDEF]

NoAuthResult == [status |-> "none"]

NoQuickArgs == [bytes |-> "", signature |-> UNDEF, secret |-> ""]

NoQuickResult ==
    [verify |-> "none", status |-> 0, parsed |-> FALSE, verifySignature |-> "none"]

NoSiteArgs == [forwardedHost |-> NULL, host |-> NULL, siteUrlEnv |-> UNDEF]

NoMetadata == [siteUrl |-> "", threw |-> FALSE, openGraph |-> "", twitter |-> ""]

NoWalk == [node |-> 0, prop |-> 0, ignored |-> {}]

HarnessIdle ==
    /\ vArgs = NoArgs
    /\ vRet = "none"
    /\ lArgs = NoLoginArgs
    /\ lRet = NoAuthResult
    /\ qArgs = NoQuickArgs
    /\ qRet = NoQuickResult
    /\ sArgs = NoSiteArgs
    /\ sRet = NoMetadata
    /\ og = NoWalk

ReceiverIdle ==
    /\ deliveries = [on |-> FALSE, log |-> <<>>]
    /\ nreq = 0
    /\ pending = <<>>
    /\ handlerFailed = FALSE
    /\ req = NoRequest
    /\ pc = "idle"
    /\ webhookSecret = UNDEF
    /\ payload = Unassigned
    /\ event = UNDEF
    /\ settled = "none"
    /\ callback = "none"
    /\ flushed = FALSE
    /\ trace = <<>>

Init ==
    /\ env \in EnvValues
    /\ env0 = env
    /\ ReceiverIdle
    /\ HarnessIdle

(* Where the callback has returned or run off its end. *)
Returns == {"ret198", "ret203", "ret212", "ret217", "end229"}

(* The route callback starts on request r: line 190 reads the secret from *)
(* the environment.  The callback's locals and the response are new with  *)
(* every request.                                                         *)
Begin(r) ==
    /\ req' = r
    /\ webhookSecret' = env
    /\ payload' = Unassigned
    /\ event' = UNDEF
    /\ settled' = "none"
    /\ callback' = "pending"
    /\ flushed' = FALSE
    /\ trace' = <<>>
    /\ pc' = "l193"

(* A request arrives, raw() has read its body, and the callback starts. *)
Receive ==
    /\ pc = "idle"
    /\ callback # "rejected"
    /\ nreq < MaxRequests
    /\ \E contentType \in ContentTypes, bytes \in RawBodies :
         \E signature \in SignatureHeaders(bytes) :
            Begin([contentType |-> contentType, bytes |-> bytes,
                   signature |-> signature])
    /\ nreq' = nreq + 1
    /\ UNCHANGED <<env, env0, deliveries, pending, handlerFailed, harness>>

(* res.status(status).json(...) followed by return: the response is       *)
(* written, the socket takes it at once or queues it until control is     *)
(* back in the event loop, and the callback's promise is fulfilled.       *)
Respond(status, text, logs, at) ==
    /\ trace' = trace \o logs \o <<Res(status, text)>>
    /\ flushed' \in BOOLEAN
    /\ callback' = "fulfilled"
    /\ pc' = at

(* A callback that parses the body before it looks at the signature. *)
ParseBodyFirst ==
    /\ pc = "l193"
    /\ IF ~JSONParse(RawMiddleware(req.contentType, req.bytes).bytes).ok
       THEN Respond(400, "Invalid JSON body", <<>>, "ret212")
       ELSE /\ pc' = IF Truthy(webhookSecret) THEN "l196" ELSE "l209"
            /\ UNCHANGED <<trace, flushed, callback>>
    /\ UNCHANGED <<env, env0, deliveries, nreq, pending, handlerFailed, req, webhookSecret, payload,
                   event, settled, harness>>

(* line 193: if (webhookSecret) *)
CheckSecret ==
    /\ pc = "l193"
    /\ pc' = IF Truthy(webhookSecret) THEN "l196" ELSE "l209"
    /\ UNCHANGED <<env, env0, deliveries, nreq, pending, handlerFailed, req, webhookSecret, payload,
                   event, settled, callback, flushed, trace, harness>>

(* lines 194-199: if (!signature) *)
CheckHeader ==
    /\ pc = "l196"
    /\ IF ~Truthy(req.signature)
       THEN Respond(401, "Missing signature",
                    <<Console("warn", "Webhook received without signature header", {})>>,
                    "ret198")
       ELSE /\ pc' = "l201"
            /\ UNCHANGED <<trace, flushed, callback>>
    /\ UNCHANGED <<env, env0, deliveries, nreq, pending, handlerFailed, req, webhookSecret, payload,
                   event, settled, harness>>

(* The signature check with the `return` of line 203 forgotten. *)
VerifySignatureNoReturn ==
    /\ pc = "l201"
    /\ IF ~verifyWebhookSignature(RawMiddleware(req.contentType, req.bytes),
                                  req.signature.v, webhookSecret.v)
       THEN /\ trace' = trace \o
                  <<Console("warn", "Webhook signature verification failed", {}),
                    Res(401, "Invalid signature")>>
            /\ flushed' \in BOOLEAN
       ELSE UNCHANGED <<trace, flushed>>
    /\ pc' = "l209"
    /\ UNCHANGED <<env, env0, deliveries, nreq, pending, handlerFailed, req, webhookSecret, payload,
                   event, settled, callback, harness>>

(* The signature check applied to the body parsed and serialised again. *)
VerifySignatureReserialised ==
    /\ pc = "l201"
    /\ IF ~(/\ RawMiddleware(req.contentType, req.bytes).buffer
            /\ JSONParse(req.bytes).ok
            /\ verifyWebhookSignature(
                   Buffer(IF req.bytes = B_user_create_ws THEN B_user_create ELSE req.bytes),
                   req.signature.v, webhookSecret.v))
       THEN Respond(401, "Invalid signature",
                    <<Console("warn", "Webhook signature verification failed", {})>>,
                    "ret203")
       ELSE /\ pc' = "l209"
            /\ UNCHANGED <<trace, flushed, callback>>
    /\ UNCHANGED <<env, env0, deliveries, nreq, pending, handlerFailed, req, webhookSecret, payload,
                   event, settled, harness>>

(* lines 201-204: if (!verifyWebhookSignature(req.body, signature, webhookSecret)) *)
VerifySignature ==
    /\ pc = "l201"
    /\ IF ~verifyWebhookSignature(RawMiddleware(req.contentType, req.bytes),
                                  req.signature.v, webhookSecret.v)
       THEN Respond(401, "Invalid signature",
                    <<Console("warn", "Webhook signature verification failed", {})>>,
                    "ret203")
       ELSE /\ pc' = "l209"
            /\ UNCHANGED <<trace, flushed, callback>>
    /\ UNCHANGED <<env, env0, deliveries, nreq, pending, handlerFailed, req, webhookSecret, payload,
                   event, settled, harness>>

(* lines 208-213: payload = JSON.parse(req.body.toString('utf-8')) *)
ParseBody ==
    /\ pc = "l209"
    /\ LET parsed == JSONParse(RawMiddleware(req.contentType, req.bytes).bytes)
       IN  IF parsed.ok
           THEN /\ payload' = [assigned |-> TRUE, value |-> parsed.value]
                /\ pc' = "l215"
                /\ UNCHANGED <<trace, flushed, callback>>
           ELSE /\ Respond(400, "Invalid JSON body", <<>>, "ret212")
                /\ UNCHANGED payload
    /\ UNCHANGED <<env, env0, deliveries, nreq, pending, handlerFailed, req, webhookSecret,
                   event, settled, harness>>

(* The callback without the check of event.type. *)
CheckTypeMissing ==
    /\ pc = "l215"
    /\ event' = OptGet(payload.value, "event")
    /\ pc' = "l222"
    /\ UNCHANGED <<env, env0, deliveries, nreq, pending, handlerFailed, req, webhookSecret, payload,
                   settled, callback, flushed, trace, harness>>

(* A check that takes only a non-empty string for a type. *)
CheckTypeRequiresString ==
    /\ pc = "l215"
    /\ event' = OptGet(payload.value, "event")
    /\ IF ~(OptGet(event', "type").t = "string" /\ Truthy(OptGet(event', "type")))
       THEN Respond(400, "Missing event.type", <<>>, "ret217")
       ELSE /\ pc' = "l222"
            /\ UNCHANGED <<trace, flushed, callback>>
    /\ UNCHANGED <<env, env0, deliveries, nreq, pending, handlerFailed, req, webhookSecret,
                   payload, settled, harness>>

(* lines 215-218: event = payload?.event; if (!event?.type) *)
CheckType ==
    /\ pc = "l215"
    /\ event' = OptGet(payload.value, "event")
    /\ IF ~Truthy(OptGet(event', "type"))
       THEN Respond(400, "Missing event.type", <<>>, "ret217")
       ELSE /\ pc' = "l222"
            /\ UNCHANGED <<trace, flushed, callback>>
    /\ UNCHANGED <<env, env0, deliveries, nreq, pending, handlerFailed, req, webhookSecret, payload,
                   settled, harness>>

(* The callback with the acknowledgement left out before the dispatch. *)
SendAckMissing ==
    /\ pc = "l222"
    /\ pc' = "l225"
    /\ UNCHANGED <<env, env0, deliveries, nreq, pending, handlerFailed, req, webhookSecret, payload,
                   event, settled, callback, flushed, trace, harness>>

(* line 222: res.sendStatus(200).  The socket takes the response at once *)
(* or queues it until control is back in the event loop.                 *)
SendAck ==
    /\ pc = "l222"
    /\ trace' = Append(trace, Res(200, "OK"))
    /\ flushed' \in BOOLEAN
    /\ pc' = "l225"
    /\ UNCHANGED <<env, env0, deliveries, nreq, pending, handlerFailed, req, webhookSecret, payload,
                   event, settled, callback, harness>>

(* A dispatch that stops calling handlers once one of them has failed. *)
CallDispatchUnlessFailedBefore ==
    /\ pc = "l225"
    /\ LET d == IF handlerFailed THEN Returned(<<>>) ELSE dispatchEvent(event)
       IN  /\ trace' = trace \o d.effects
           /\ settled' = IF d.threw THEN "rejected" ELSE "fulfilled"
           /\ handlerFailed' = (handlerFailed \/ d.threw)
    /\ pc' = "await225"
    /\ UNCHANGED <<env, env0, deliveries, nreq, pending, req, webhookSecret, payload, event,
                   callback, flushed, harness>>

(* A dispatch that skips an event the receiver has acknowledged before. *)
CallDispatchOncePerEvent ==
    /\ pc = "l225"
    /\ LET seen == \E i \in 1..Len(deliveries.log) :
                      /\ deliveries.log[i].req.bytes = req.bytes
                      /\ Res(200, "OK") \in {deliveries.log[i].trace[k] :
                                                k \in 1..Len(deliveries.log[i].trace)}
           d == IF seen THEN Returned(<<>>) ELSE dispatchEvent(event)
       IN  /\ trace' = trace \o d.effects
           /\ settled' = IF d.threw THEN "rejected" ELSE "fulfilled"
           /\ handlerFailed' = (handlerFailed \/ d.threw)
    /\ pc' = "await225"
    /\ UNCHANGED <<env, env0, deliveries, nreq, pending, req, webhookSecret, payload, event,
                   callback, flushed, harness>>

(* line 225: dispatchEvent(event) is called; the handler's body runs *)
(* synchronously and the promise returned is awaited.                *)
CallDispatch ==
    /\ pc = "l225"
    /\ LET d == dispatchEvent(event)
       IN  /\ trace' = trace \o d.effects
           /\ settled' = IF d.threw THEN "rejected" ELSE "fulfilled"
           /\ handlerFailed' = (handlerFailed \/ d.threw)
    /\ pc' = "await225"
    /\ UNCHANGED <<env, env0, deliveries, nreq, pending, req, webhookSecret, payload, event,
                   callback, flushed, harness>>

(* A catch block that reports the failure to the sender. *)
ResumeAfterAwaitResponds500 ==
    /\ pc = "await225"
    /\ IF settled = "rejected"
       THEN trace' = trace \o
                <<Console("error", "Error handling event", {"type", "err"}),
                  Res(500, "Internal Server Error")>>
       ELSE UNCHANGED trace
    /\ callback' = "fulfilled"
    /\ pc' = "end229"
    /\ UNCHANGED <<env, env0, deliveries, nreq, pending, handlerFailed, req, webhookSecret, payload,
                   event, settled, flushed, harness>>

(* A catch block that runs the dispatch a second time. *)
ResumeAfterAwaitRetries ==
    /\ pc = "await225"
    /\ IF settled = "rejected"
       THEN trace' = trace \o
                <<Console("error", "Error handling event", {"type", "err"})>>
                \o dispatchEvent(event).effects
       ELSE UNCHANGED trace
    /\ callback' = "fulfilled"
    /\ pc' = "end229"
    /\ UNCHANGED <<env, env0, deliveries, nreq, pending, handlerFailed, req, webhookSecret, payload,
                   event, settled, flushed, harness>>

(* The await of line 225 without the try/catch around it: a rejection *)
(* becomes the rejection of the callback's own promise.               *)
ResumeAfterAwaitUncaught ==
    /\ pc = "await225"
    /\ callback' = IF settled = "rejected" THEN "rejected" ELSE "fulfilled"
    /\ pc' = "end229"
    /\ UNCHANGED <<env, env0, deliveries, nreq, pending, handlerFailed, req, webhookSecret, payload,
                   event, settled, flushed, trace, harness>>

(* lines 225-229: the await resumes; a rejection enters the catch block, *)
(* which logs it, and the callback runs off its end.                    *)
ResumeAfterAwait ==
    /\ pc = "await225"
    /\ IF settled = "rejected"
       THEN trace' = Append(trace, Console("error", "Error handling event", {"type", "err"}))
       ELSE UNCHANGED trace
    /\ callback' = "fulfilled"
    /\ pc' = "end229"
    /\ UNCHANGED <<env, env0, deliveries, nreq, pending, handlerFailed, req, webhookSecret, payload,
                   event, settled, flushed, harness>>

(* The callback has returned: its frame, the request and the response  *)
(* are discarded, and the receiver waits for the next request.  A      *)
(* rejected callback promise is an unhandled rejection, which ends the *)
(* process.  An observer that is on records the delivery.              *)
Return ==
    /\ pc \in Returns
    /\ callback = "fulfilled"
    /\ pc' = "idle"
    /\ req' = NoRequest
    /\ webhookSecret' = UNDEF
    /\ payload' = Unassigned
    /\ event' = UNDEF
    /\ settled' = "none"
    /\ callback' = "none"
    /\ flushed' = FALSE
    /\ trace' = <<>>
    /\ deliveries' = IF deliveries.on
                     THEN [deliveries EXCEPT !.log = Append(@, [req |-> req, trace |-> trace])]
                     ELSE deliveries
    /\ UNCHANGED <<env, env0, nreq, pending, handlerFailed, harness>>

Next ==
    \/ Receive
    \/ CheckSecret
    \/ CheckHeader
    \/ VerifySignature
    \/ ParseBody
    \/ CheckType
    \/ SendAck
    \/ CallDispatch
    \/ ResumeAfterAwait
    \/ Return

Spec == Init /\ [][Next]_vars

(***************************************************************************)
(* verifyWebhookSignature applied alone to arguments drawn from the        *)
(* secrets, the bodies and the headers a sender can build.                 *)
(***************************************************************************)
VerifyInputs ==
    { [rawBody |-> rawBody, signatureHeader |-> Encode(enc, key, msg),
       secret |-> secret, enc |-> enc, key |-> key, msg |-> msg] :
        rawBody \in {Buffer(bytes) : bytes \in RawBodies} \cup {NotBuffer},
        secret \in Keys, enc \in Encodings, key \in Keys, msg \in VerifyBodies }
    \cup
    { [rawBody |-> rawBody, signatureHeader |-> literal,
       secret |-> secret, enc |-> "literal", key |-> "", msg |-> ""] :
        rawBody \in {Buffer(bytes) : bytes \in RawBodies} \cup {NotBuffer},
        secret \in Keys, literal \in {"", "sha256=deadbeef", "sha256="} }

InitVerify ==
    /\ env = UNDEF
    /\ env0 = env
    /\ ReceiverIdle
    /\ vArgs \in VerifyInputs
    /\ vRet = "none"
    /\ lArgs = NoLoginArgs
    /\ lRet = NoAuthResult
    /\ qArgs = NoQuickArgs
    /\ qRet = NoQuickResult
    /\ sArgs = NoSiteArgs
    /\ sRet = NoMetadata
    /\ og = NoWalk

VerifyCall ==
    /\ vArgs # NoArgs
    /\ vRet = "none"
    /\ vRet' = IF verifyWebhookSignature(vArgs.rawBody, vArgs.signatureHeader, vArgs.secret)
               THEN "true" ELSE "false"
    /\ UNCHANGED <<recv, vArgs, lArgs, lRet, qArgs, qRet, sArgs, sRet, og>>

NextVerify == VerifyCall

SpecVerify == InitVerify /\ [][NextVerify]_vars

(***************************************************************************)
(* login applied alone to the ClientResponses fusionauth.login resolves    *)
(* to.  FusionAuth sends the user with 200 and 202, the changePasswordId   *)
(* with 203 and the twoFactorId with 242; the refresh token is sent only   *)
(* when the application issues one.                                        *)
(***************************************************************************)
StatusCodes == 100..599

LoginResponse(statusCode) ==
    CASE statusCode = 200 ->
            { Obj([token |-> Str("jwt-1"), refreshToken |-> refreshToken,
                   user |-> Obj([id |-> Str("user-1")])]) :
                refreshToken \in {UNDEF, Str("rt-1")} }
      [] statusCode = 202 ->
            { Obj([token |-> Str("jwt-1"), user |-> Obj([id |-> Str("user-1")])]) }
      [] statusCode = 203 ->
            { Obj([changePasswordId |-> Str("cp-1")]) }
      [] statusCode = 242 ->
            { Obj([twoFactorId |-> Str("2fa-1"), methods |-> Arr(<<>>)]) }
      [] OTHER ->
            { UNDEF }

LoginInputs ==
    { [statusCode |-> statusCode, response |-> response, exception |-> exception] :
        statusCode \in StatusCodes,
        response \in UNION { LoginResponse(c) : c \in StatusCodes },
        exception \in {UNDEF, Obj([message |-> Str("Request failed")])} }

InitLogin ==
    /\ env = UNDEF
    /\ env0 = env
    /\ ReceiverIdle
    /\ vArgs = NoArgs
    /\ vRet = "none"
    /\ lArgs \in {a \in LoginInputs : a.response \in LoginResponse(a.statusCode)}
    /\ lRet = NoAuthResult
    /\ qArgs = NoQuickArgs
    /\ qRet = NoQuickResult
    /\ sArgs = NoSiteArgs
    /\ sRet = NoMetadata
    /\ og = NoWalk

LoginCall ==
    /\ lArgs # NoLoginArgs
    /\ lRet = NoAuthResult
    /\ lRet' = login(lArgs)
    /\ UNCHANGED <<recv, vArgs, vRet, lArgs, qArgs, qRet, sArgs, sRet, og>>

NextLogin == LoginCall

SpecLogin == InitLogin /\ [][NextLogin]_vars

(***************************************************************************)
(* The quick-start handler and verifySignature applied alone to requests   *)
(* of content type application/json, with WEBHOOK_SECRET set.              *)
(***************************************************************************)
QuickInputs ==
    UNION { { [bytes |-> bytes, signature |-> signature, secret |-> secret] :
                signature \in SignatureHeaders(bytes), secret \in Keys } :
            bytes \in VerifyBodies }

InitQuick ==
    /\ env = UNDEF
    /\ env0 = env
    /\ ReceiverIdle
    /\ vArgs = NoArgs
    /\ vRet = "none"
    /\ lArgs = NoLoginArgs
    /\ lRet = NoAuthResult
    /\ qArgs \in QuickInputs
    /\ qRet = NoQuickResult
    /\ sArgs = NoSiteArgs
    /\ sRet = NoMetadata
    /\ og = NoWalk

QuickCall ==
    /\ qArgs # NoQuickArgs
    /\ qRet = NoQuickResult
    /\ qRet' = [verify |-> quickStartHandler(qArgs).verify,
                status |-> quickStartHandler(qArgs).status,
                parsed |-> quickStartHandler(qArgs).parsed,
                verifySignature |-> verifySignature(qArgs.bytes, qArgs.signature,
                                                    qArgs.secret)]
    /\ UNCHANGED <<recv, vArgs, vRet, lArgs, lRet, qArgs, sArgs, sRet, og>>

NextQuick == QuickCall

SpecQuick == InitQuick /\ [][NextQuick]_vars

(***************************************************************************)
(* Requests in flight together.  raw() reads each request's body from its  *)
(* own socket; the route callback of a request is queued when its body is  *)
(* complete, so callbacks start in any order, and each runs to the end of  *)
(* its catch block before the next one starts.                             *)
(***************************************************************************)
(* Requests whose body is read and whose callback has not started. *)
MaxPending == 2

ConcRequests ==
    { [contentType |-> "application/json", bytes |-> B_user_create,
       signature |-> Str(Encode("sha256=lower", SecretA, B_user_create))],
      [contentType |-> "application/json", bytes |-> B_user_create_bare,
       signature |-> Str(Encode("sha256=lower", SecretA, B_user_create_bare))],
      [contentType |-> "application/json", bytes |-> B_x_unknown,
       signature |-> Str(Encode("sha256=lower", SecretB, B_x_unknown))],
      [contentType |-> "application/json", bytes |-> B_not_json,
       signature |-> UNDEF],
      [contentType |-> "text/plain", bytes |-> B_user_delete,
       signature |-> Str(Encode("sha256=lower", SecretA, B_user_delete))] }

Arrive ==
    /\ nreq < MaxRequests
    /\ Len(pending) < MaxPending
    /\ \E r \in ConcRequests : pending' = Append(pending, r)
    /\ nreq' = nreq + 1
    /\ UNCHANGED <<env, env0, deliveries, handlerFailed, req, pc, webhookSecret, payload, event,
                   settled, callback, flushed, trace, harness>>

Start ==
    /\ pc = "idle"
    /\ callback # "rejected"
    /\ \E i \in 1..Len(pending) :
          /\ Begin(pending[i])
          /\ pending' = SubSeq(pending, 1, i - 1) \o SubSeq(pending, i + 1, Len(pending))
    /\ UNCHANGED <<env, env0, deliveries, nreq, handlerFailed, harness>>

NextConc ==
    \/ Arrive
    \/ Start
    \/ CheckSecret
    \/ CheckHeader
    \/ VerifySignature
    \/ ParseBody
    \/ CheckType
    \/ SendAck
    \/ CallDispatch
    \/ ResumeAfterAwait
    \/ Return

SpecConc == Init /\ [][NextConc]_vars

(***************************************************************************)
(* The environment variable changed while the process runs.               *)
(***************************************************************************)
SetEnv ==
    /\ env' \in EnvValues \ {env}
    /\ UNCHANGED <<env0, deliveries, nreq, pending, handlerFailed, req, pc, webhookSecret, payload,
                   event, settled, callback, flushed, trace, harness>>

NextEnv ==
    \/ SetEnv
    \/ Arrive
    \/ Start
    \/ CheckSecret
    \/ CheckHeader
    \/ VerifySignature
    \/ ParseBody
    \/ CheckType
    \/ SendAck
    \/ CallDispatch
    \/ ResumeAfterAwait
    \/ Return

SpecEnv == Init /\ [][NextEnv]_vars

(***************************************************************************)
(* The same receiver watched by an observer that records every delivery:   *)
(* the sender delivers an event again whenever it likes.                   *)
(***************************************************************************)
InitDup ==
    /\ env \in EnvValues
    /\ env0 = env
    /\ deliveries = [on |-> TRUE, log |-> <<>>]
    /\ nreq = 0
    /\ pending = <<>>
    /\ handlerFailed = FALSE
    /\ req = NoRequest
    /\ pc = "idle"
    /\ webhookSecret = UNDEF
    /\ payload = Unassigned
    /\ event = UNDEF
    /\ settled = "none"
    /\ callback = "none"
    /\ flushed = FALSE
    /\ trace = <<>>
    /\ HarnessIdle

SpecDup == InitDup /\ [][NextConc]_vars

(***************************************************************************)
(* generateMetadata applied alone to the headers of a request and the      *)
(* value of NEXT_PUBLIC_SITE_URL.                                          *)
(***************************************************************************)
SiteInputs ==
    LET hosts == {NULL, Str(""), Str("example.com"), Str("example.cl"),
                  Str("localhost:3000"), Str("localhost.example.com"),
                  Str("app.localhost")}
    IN  { [forwardedHost |-> forwardedHost, host |-> host, siteUrlEnv |-> siteUrlEnv] :
            forwardedHost \in hosts, host \in hosts,
            siteUrlEnv \in {UNDEF, Str(""), Str("https://site.example")} }

InitSite ==
    /\ env = UNDEF
    /\ env0 = env
    /\ ReceiverIdle
    /\ vArgs = NoArgs
    /\ vRet = "none"
    /\ lArgs = NoLoginArgs
    /\ lRet = NoAuthResult
    /\ qArgs = NoQuickArgs
    /\ qRet = NoQuickResult
    /\ sArgs \in SiteInputs \ {NoSiteArgs}
    /\ sRet = NoMetadata
    /\ og = NoWalk

SiteCall ==
    /\ sArgs \in SiteInputs
    /\ sRet = NoMetadata
    /\ sRet' = generateMetadata(sArgs.forwardedHost, sArgs.host, sArgs.siteUrlEnv)
    /\ UNCHANGED <<recv, vArgs, vRet, lArgs, lRet, qArgs, qRet, sArgs, og>>

SpecSite == InitSite /\ [][SiteCall]_vars

(***************************************************************************)
(* ImageResponse renders the template: the renderer visits the elements    *)
(* in document order and, in each, the entries of its style object; it     *)
(* ignores the entries it does not support.                                *)
(***************************************************************************)
InitRender ==
    /\ env = UNDEF
    /\ env0 = env
    /\ ReceiverIdle
    /\ vArgs = NoArgs
    /\ vRet = "none"
    /\ lArgs = NoLoginArgs
    /\ lRet = NoAuthResult
    /\ qArgs = NoQuickArgs
    /\ qRet = NoQuickResult
    /\ sArgs = NoSiteArgs
    /\ sRet = NoMetadata
    /\ og = NoWalk

RenderStep ==
    /\ og.node <= Len(Template)
    /\ og' = IF og.node >= 1 /\ og.prop < Len(Template[og.node].style)
             THEN LET entry == Template[og.node].style[og.prop + 1]
                  IN  [node |-> og.node, prop |-> og.prop + 1,
                       ignored |-> IF Unsupported(Template[og.node].tag, entry[1], entry[2])
                                   THEN og.ignored \cup {<<og.node, entry[1]>>}
                                   ELSE og.ignored]
             ELSE [node |-> og.node + 1, prop |-> 0, ignored |-> og.ignored]
    /\ UNCHANGED <<recv, vArgs, vRet, lArgs, lRet, qArgs, qRet, sArgs, sRet>>

SpecRender == InitRender /\ [][RenderStep]_vars

(***************************************************************************)
(* The receiver with the fairness its scheduling gives: once a request's   *)
(* callback can start, Node starts it, and each statement of the callback  *)
(* is followed by the next.  Nothing makes the sender send, and nothing    *)
(* makes a handler return: the handlers are placeholders for application   *)
(* logic.                                                                  *)
(***************************************************************************)
SpecLive ==
    /\ Init
    /\ [][NextConc]_vars
    /\ WF_vars(Start)
    /\ WF_vars(CheckSecret)
    /\ WF_vars(CheckHeader)
    /\ WF_vars(VerifySignature)
    /\ WF_vars(ParseBody)
    /\ WF_vars(CheckType)
    /\ WF_vars(SendAck)
    /\ WF_vars(ResumeAfterAwait)
    /\ WF_vars(Return)

(***************************************************************************)
(* login, loginMFA and loginPasswordless applied alone to the              *)
(* ClientResponses their upstream calls resolve to.                        *)
(***************************************************************************)
InitLoginAll ==
    /\ env = UNDEF
    /\ env0 = env
    /\ ReceiverIdle
    /\ vArgs = NoArgs
    /\ vRet = "none"
    /\ lArgs \in { [fn |-> fn, statusCode |-> a.statusCode, response |-> a.response,
                    exception |-> a.exception] :
                     fn \in {"login", "loginMFA", "loginPasswordless"},
                     a \in {x \in LoginInputs : x.response \in LoginResponse(x.statusCode)} }
    /\ lRet = NoAuthResult
    /\ qArgs = NoQuickArgs
    /\ qRet = NoQuickResult
    /\ sArgs = NoSiteArgs
    /\ sRet = NoMetadata
    /\ og = NoWalk

LoginAllCall ==
    /\ lArgs # NoLoginArgs
    /\ lRet = NoAuthResult
    /\ lRet' = CASE lArgs.fn = "login" -> login(lArgs)
                 [] lArgs.fn = "loginMFA" -> loginMFA(lArgs)
                 [] lArgs.fn = "loginPasswordless" -> loginPasswordless(lArgs)
    /\ UNCHANGED <<recv, vArgs, vRet, lArgs, qArgs, qRet, sArgs, sRet, og>>

SpecLoginAll == InitLoginAll /\ [][LoginAllCall]_vars

(***************************************************************************)
(* What a request has done so far, read off its trace.                     *)
(***************************************************************************)
IsRes(e) == e.k = "res"

IsCall(e) == e.k = "call"

IsConsole(e) == e.k = "console"

Responses == SelectSeq(trace, IsRes)

Statuses == [i \in 1..Len(Responses) |-> Responses[i].status]

Calls == SelectSeq(trace, IsCall)

Logs == SelectSeq(trace, IsConsole)

(* req.body as the callback sees it. *)
Body == RawMiddleware(req.contentType, req.bytes)

(* A request is in progress or has just been answered. *)
Started == pc # "idle"

(* The callback has gone past the signature step (lines 193-205). *)
PastSignatureStep == pc \in {"l209", "ret212", "l215", "ret217", "l222", "l225", "await225", "end229"}

(* The callback has reached the acknowledgement (line 222) or gone past it. *)
Accepted == pc \in {"l225", "await225", "end229"}

(* A secret is configured and the header is the tag of the received bytes *)
(* under it.                                                              *)
SecretConfigured == Truthy(webhookSecret)

HeaderMatches ==
    /\ SecretConfigured
    /\ req.signature.t = "string"
    /\ Body.buffer
    /\ req.signature.v = "sha256=" \o HmacSha256Hex(webhookSecret.v, req.bytes)

(* The request's body as JSON, and its event.type. *)
BodyJSON == JSONParse(Body.bytes)

BodyEventType ==
    IF BodyJSON.ok THEN OptGet(OptGet(BodyJSON.value, "event"), "type") ELSE UNDEF

(* The static table of the dispatcher, as the specification lists it. *)
RoutingTable ==
    ("user.create" :> "onUserCreate")
    @@ ("user.update" :> "onUserUpdate")
    @@ ("user.delete" :> "onUserDelete")
    @@ ("user.deactivate" :> "onUserDelete")
    @@ ("user.login.success" :> "onLoginSuccess")
    @@ ("user.login.failed" :> "onLoginFailed")
    @@ ("user.registration.create" :> "onRegistrationCreate")
    @@ ("jwt.refresh-token.revoke" :> "onRefreshTokenRevoke")
    @@ ("user.password.breach" :> "onPasswordBreach")
    @@ ("user.password.reset.success" :> "onPasswordReset")

(* The four dispatch outcomes, by where the callback ended. *)
RejectedUnauthenticated == pc \in {"ret198", "ret203"}

RejectedMalformed == pc \in {"ret212", "ret217"}

AcceptedAndProcessed == pc = "end229" /\ settled = "fulfilled"

AcceptedButHandlerFailed == pc = "end229" /\ settled = "rejected"

(***************************************************************************)
(* C1.  The 200 acknowledgement of a request is sent before its handler    *)
(* starts: every handler call and every handler log in the trace comes     *)
(* after a 200 response of the same request, and once the request is       *)
(* validated and acknowledged the handler has not yet run.                 *)
(***************************************************************************)
C1_AckBeforeHandler ==
    /\ \A i \in 1..Len(trace) :
         trace[i].k = "call" =>
            \E j \in 1..(i - 1) : trace[j].k = "res" /\ trace[j].status = 200
    /\ pc = "l225" => (Statuses = <<200>> /\ Calls = <<>>)
    /\ pc \in {"await225", "end229"} => trace[1] = Res(200, "OK")

C1_Witness ==
    /\ pc = "await225"
    /\ Len(Calls) = 1
    /\ trace[1] = Res(200, "OK")
    /\ trace[2].k = "call"

(***************************************************************************)
(* C2.  With a secret configured, a request whose signature header is      *)
(* present but is not the tag of the received body under that secret is    *)
(* answered 401; its body is never parsed and no handler is invoked.       *)
(***************************************************************************)
C2_InvalidSignatureRejected ==
    (/\ Started
     /\ SecretConfigured
     /\ req.signature.t = "string"
     /\ ~HeaderMatches)
    => /\ ~PastSignatureStep
       /\ ~payload.assigned
       /\ Calls = <<>>
       /\ pc \in Returns => Statuses = <<401>>

C2_Witness ==
    /\ pc = "ret203"
    /\ SecretConfigured
    /\ req.signature = Str("sha256=deadbeef")
    /\ req.bytes = B_user_create
    /\ Statuses = <<401>>

(***************************************************************************)
(* C3.  With the secret absent, unset or empty the receiver never fails    *)
(* open: no request is acknowledged with 200 or dispatched to a handler    *)
(* (the code has no operator setting that disables signature checking).    *)
(***************************************************************************)
C3_NeverFailsOpen ==
    (Started /\ ~SecretConfigured)
    => /\ \A i \in 1..Len(Statuses) : Statuses[i] # 200
       /\ Calls = <<>>

(***************************************************************************)
(* C4.  A request without a signature header is rejected with 401 and no   *)
(* handler, in every configuration, and the verifier is never called with  *)
(* an empty or absent signature.                                           *)
(***************************************************************************)
C4_MissingHeaderRejected ==
    /\ (pc \in Returns /\ req.signature = UNDEF)
         => (Statuses = <<401>> /\ Calls = <<>>)
    /\ pc = "l201" => Truthy(req.signature)

(***************************************************************************)
(* C5.  When the handler throws or its promise is rejected, the response   *)
(* of the request stays the single 200 already sent.                       *)
(***************************************************************************)
C5_HandlerFailureKeeps200 ==
    settled = "rejected" => Responses = <<Res(200, "OK")>>

C5_Witness ==
    /\ pc = "end229"
    /\ settled = "rejected"
    /\ Len(Logs) = 1
    /\ Logs[1].level = "error"

(***************************************************************************)
(* C6.  A request that is past the signature step and whose body is not    *)
(* JSON, or has no event.type, is answered 400, never 200, and no handler  *)
(* is invoked for it.                                                      *)
(***************************************************************************)
C6_MalformedRejected ==
    (/\ PastSignatureStep
     /\ \/ ~BodyJSON.ok
        \/ BodyEventType.t = "undefined")
    => /\ ~Accepted
       /\ pc # "l222"
       /\ Calls = <<>>
       /\ \A i \in 1..Len(Statuses) : Statuses[i] # 200
       /\ pc \in Returns => Statuses = <<400>>

C6_Witness ==
    /\ pc = "ret212"
    /\ HeaderMatches
    /\ req.bytes = B_not_json
    /\ Statuses = <<400>>

(***************************************************************************)
(* C7.  verifyWebhookSignature(body, header, secret) returns true exactly  *)
(* when header is "sha256=" followed by the lowercase hexadecimal          *)
(* HMAC-SHA256 of body under secret: not for a tag under another secret,   *)
(* a tag of other bytes, an uppercase or unprefixed tag, or any literal.   *)
(***************************************************************************)
C7_VerifyIffExactTag ==
    vRet # "none" =>
       (vRet = "true" <=>
           /\ vArgs.rawBody.buffer
           /\ vArgs.enc = "sha256=lower"
           /\ vArgs.key = vArgs.secret
           /\ vArgs.msg = vArgs.rawBody.bytes)

C7_Witness ==
    /\ vRet = "true"
    /\ vArgs.rawBody = Buffer(B_user_create)
    /\ vArgs.secret = SecretA

(***************************************************************************)
(* C8.  dispatchEvent invokes exactly one handler, once, for a type of     *)
(* the static table, the one the table lists (user.delete and              *)
(* user.deactivate both onUserDelete); it never invokes two handlers, and  *)
(* none for a type outside the table.                                      *)
(***************************************************************************)
C8_DispatchRouting ==
    pc \in {"await225", "end229"} =>
       LET type == Get(event, "type")
       IN  /\ Len(Calls) <= 1
           /\ IF type.t = "string" /\ type.v \in DOMAIN RoutingTable
              THEN Calls = <<Call(RoutingTable[type.v])>>
              ELSE Calls = <<>>

C8_Witness ==
    /\ pc = "end229"
    /\ TypeIs(event, "user.deactivate")
    /\ Calls = <<Call("onUserDelete")>>

C10_OneResponsePerOutcome ==
    /\ Len(Responses) <= 1
    /\ \A i \in 1..Len(Statuses) : Statuses[i] \in {200, 400, 401}
    /\ pc \in Returns =>
         /\ Cardinality({o \in {"unauthenticated", "malformed", "processed", "failed"} :
                \/ o = "unauthenticated" /\ RejectedUnauthenticated
                \/ o = "malformed" /\ RejectedMalformed
                \/ o = "processed" /\ AcceptedAndProcessed
                \/ o = "failed" /\ AcceptedButHandlerFailed}) = 1
         /\ Len(Responses) = 1
         /\ Statuses[1] = 401 <=> RejectedUnauthenticated
         /\ Statuses[1] = 400 <=> RejectedMalformed
         /\ Statuses[1] = 200 <=> (AcceptedAndProcessed \/ AcceptedButHandlerFailed)

C10_Witness ==
    /\ RejectedUnauthenticated
    /\ Statuses = <<401>>
    /\ req.signature = UNDEF

(***************************************************************************)
(* C11.  Over the lifetime of a request the dispatcher makes exactly one   *)
(* invocation when the request is accepted (the handler registered for     *)
(* the type, or the log-only fallback for a type without one) and none     *)
(* when it is rejected; no handler is invoked a second time, also not      *)
(* after it failed.                                                        *)
(***************************************************************************)
IsInvocation(e) ==
    \/ IsCall(e)
    \/ IsConsole(e) /\ e.text = "Unhandled event type"

Invocations == SelectSeq(trace, IsInvocation)

HasRegisteredHandler ==
    BodyEventType.t = "string" /\ BodyEventType.v \in DOMAIN RoutingTable

C11_ExactlyOneInvocation ==
    /\ Len(Invocations) <= 1
    /\ pc \in {"await225", "end229"} =>
          /\ Len(Invocations) = 1
          /\ Calls = IF HasRegisteredHandler
                     THEN <<Call(RoutingTable[BodyEventType.v])>>
                     ELSE <<>>
    /\ (RejectedUnauthenticated \/ RejectedMalformed) => Invocations = <<>>

C11_Witness ==
    /\ AcceptedButHandlerFailed
    /\ req.bytes = B_registration_create_noroles
    /\ Calls = <<Call("onRegistrationCreate")>>

C14_LoginStatusMapping ==
    lRet # NoAuthResult =>
        LET code == lArgs.statusCode
            response == lArgs.response
        IN  /\ code = 200 =>
                 lRet = [status |-> "ok",
                         token |-> response.p.token,
                         refreshToken |-> Get(response, "refreshToken"),
                         userId |-> response.p.user.p.id]
            /\ code = 202 =>
                 lRet = [status |-> "not_registered", userId |-> response.p.user.p.id]
            /\ code = 203 =>
                 lRet = [status |-> "password_change",
                         changePasswordId |-> response.p.changePasswordId]
            /\ code \in {212, 213} => lRet = [status |-> "verify_email"]
            /\ code = 242 =>
                 lRet = [status |-> "mfa_required", twoFactorId |-> response.p.twoFactorId]
            /\ code \notin {200, 202, 203, 212, 213, 242} =>
                 /\ DOMAIN lRet = {"status", "code", "message"}
                 /\ lRet.status = "error"
                 /\ lRet.code = code
                 /\ lRet.message.t = "string"

C14_Witness ==
    /\ lArgs.statusCode = 213
    /\ lRet = [status |-> "verify_email"]

(***************************************************************************)
(* C15.  In the quick-start handler and in verifySignature, a header that  *)
(* does not match the expected value (of another length or absent          *)
(* included) makes the verify function return false and the handler        *)
(* answer 401 without parsing the body.                                    *)
(***************************************************************************)
QuickHeaderMatches ==
    qArgs.signature = Str("sha256=" \o HmacSha256Hex(qArgs.secret, qArgs.bytes))

C15_QuickStartMismatchIs401 ==
    (qRet # NoQuickResult /\ ~QuickHeaderMatches) =>
        /\ qRet.verify = "false"
        /\ qRet.verifySignature = "false"
        /\ qRet.status = 401
        /\ ~qRet.parsed

(***************************************************************************)
(* C16.  With a secret configured, the signature is checked before the     *)
(* body is parsed: an unparsable body with a wrong signature is answered   *)
(* 401, an unparsable body signed over its exact bytes is answered 400.    *)
(***************************************************************************)
C16_SignatureBeforeParsing ==
    /\ (SecretConfigured /\ pc \in Returns /\ ~BodyJSON.ok) =>
          /\ ~HeaderMatches => Statuses = <<401>>
          /\ HeaderMatches => Statuses = <<400>> /\ pc = "ret212"
    /\ (SecretConfigured /\ payload.assigned) => HeaderMatches

C16_Witness ==
    /\ pc = "ret203"
    /\ SecretConfigured
    /\ Body.buffer
    /\ req.bytes = B_not_json
    /\ req.signature = Str("sha256=" \o HmacSha256Hex(SecretA, B_user_create))
    /\ Statuses = <<401>>

(***************************************************************************)
(* C17.  The tag is computed over exactly the bytes received: a request    *)
(* passes the signature step only if its header is the tag of those bytes  *)
(* as they came, and the payload and the event dispatched are parsed from  *)
(* the same bytes.                                                         *)
(***************************************************************************)
C17_VerifiedBytesAreParsedBytes ==
    /\ (SecretConfigured /\ PastSignatureStep) =>
          /\ Body = Buffer(req.bytes)
          /\ req.signature = Str("sha256=" \o HmacSha256Hex(webhookSecret.v, req.bytes))
    /\ payload.assigned =>
          /\ JSONParse(Body.bytes).ok
          /\ payload.value = JSONParse(Body.bytes).value
    /\ pc \in {"l222", "l225", "await225", "end229"} =>
          event = OptGet(JSONParse(Body.bytes).value, "event")

C17_Witness ==
    /\ pc = "ret203"
    /\ SecretConfigured
    /\ Body = Buffer(B_user_create_ws)
    /\ JSONParse(B_user_create_ws) = JSONParse(B_user_create)
    /\ req.signature = Str("sha256=" \o HmacSha256Hex(webhookSecret.v, B_user_create))

(***************************************************************************)
(* C18.  The 200 acknowledgement has reached the transport before any      *)
(* handler work begins: when a handler has started, or the dispatch has    *)
(* been made, the response written is flushed.                             *)
(***************************************************************************)
C18_AckFlushedBeforeHandler ==
    (Invocations # <<>> \/ pc \in {"await225", "end229"}) => flushed

(***************************************************************************)
(* C19.  With requests in flight together and their callbacks started in   *)
(* any order, the status and the handler of each request are those of the  *)
(* request handled alone: a function of its own bytes, its own header and  *)
(* the secret, whatever happened to the requests before it.                *)
(***************************************************************************)
AloneStatus ==
    IF SecretConfigured /\ ~HeaderMatches THEN 401
    ELSE IF ~BodyJSON.ok \/ ~Truthy(BodyEventType) THEN 400
    ELSE 200

AloneCalls ==
    IF AloneStatus = 200 /\ HasRegisteredHandler
    THEN <<Call(RoutingTable[BodyEventType.v])>>
    ELSE <<>>

C19_IndependentOfOtherRequests ==
    pc \in Returns =>
        /\ Statuses = <<AloneStatus>>
        /\ Calls = AloneCalls

C19_Witness ==
    /\ handlerFailed
    /\ pending # <<>>
    /\ AcceptedAndProcessed
    /\ req.bytes = B_user_create
    /\ Calls = <<Call("onUserCreate")>>

(***************************************************************************)
(* C20.  The secret is loaded once at process start: every request is      *)
(* verified against the value the environment variable had at start,       *)
(* whatever the variable is changed to afterwards.                         *)
(***************************************************************************)
C20_SecretLoadedOnce ==
    Started => webhookSecret = env0

(***************************************************************************)
(* C21.  The receiver does not deduplicate: every delivery that is         *)
(* acknowledged with 200 has its one dispatch, whether or not the same     *)
(* request was delivered before, and two deliveries of the same request    *)
(* have the same effects, so an event delivered twice is handled twice.    *)
(***************************************************************************)
C21_NoDeduplication ==
    \A i \in 1..Len(deliveries.log) :
        LET d == deliveries.log[i]
        IN  /\ Res(200, "OK") \in {d.trace[k] : k \in 1..Len(d.trace)} =>
                 Len(SelectSeq(d.trace, IsInvocation)) = 1
            /\ \A j \in 1..Len(deliveries.log) :
                 deliveries.log[j].req = d.req => deliveries.log[j].trace = d.trace

C21_Witness ==
    /\ Len(deliveries.log) >= 2
    /\ deliveries.log[1].req = deliveries.log[2].req
    /\ deliveries.log[1].req.bytes = B_user_create
    /\ SelectSeq(deliveries.log[1].trace, IsRes) = <<Res(200, "OK")>>
    /\ SelectSeq(deliveries.log[1].trace, IsCall) = <<Call("onUserCreate")>>
    /\ SelectSeq(deliveries.log[2].trace, IsRes) = <<Res(200, "OK")>>
    /\ SelectSeq(deliveries.log[2].trace, IsCall) = <<Call("onUserCreate")>>

(***************************************************************************)
(* C22.  When a handler has failed, the log of the request holds an error  *)
(* record that carries the type and the identifier of the event.           *)
(***************************************************************************)
C22_FailureLogCarriesTypeAndId ==
    AcceptedButHandlerFailed =>
        \E i \in 1..Len(Logs) :
            /\ Logs[i].level = "error"
            /\ {"type", "id"} \subseteq Logs[i].fields

(***************************************************************************)
(* C23.  Every rejected request (401 or 400) has a log record, written     *)
(* before its response.                                                    *)
(***************************************************************************)
C23_EveryRejectionLogged ==
    (RejectedUnauthenticated \/ RejectedMalformed) =>
        /\ Logs # <<>>
        /\ IsConsole(trace[1])

(***************************************************************************)
(* C24.  The site origin is chosen by strict precedence: the               *)
(* x-forwarded-host header whenever it is present, else the host header,   *)
(* else NEXT_PUBLIC_SITE_URL, else https://example.com; a host from a      *)
(* header gets http exactly when it starts with localhost and https        *)
(* otherwise; the OpenGraph and the Twitter image URL are built from that  *)
(* origin.                                                                 *)
(***************************************************************************)
OriginOf(host) ==
    (IF startsWith(host.v, "localhost") THEN "http" ELSE "https") \o "://" \o host.v

C24_SiteUrlPrecedence ==
    sRet # NoMetadata =>
        LET origin ==
                IF sArgs.forwardedHost # NULL THEN OriginOf(sArgs.forwardedHost)
                ELSE IF sArgs.host # NULL THEN OriginOf(sArgs.host)
                ELSE IF sArgs.siteUrlEnv # UNDEF THEN sArgs.siteUrlEnv.v
                ELSE "https://example.com"
        IN  /\ sRet.siteUrl = origin
            /\ sRet.openGraph = origin \o "/opengraph-image"
            /\ sRet.twitter = origin \o "/opengraph-image"

(***************************************************************************)
(* C25.  The template keeps every Satori constraint: each img has an       *)
(* integer width and height, every element that contains elements uses     *)
(* display flex, spans of different colours are siblings in a flex         *)
(* column, and no style entry is one the gotchas reference lists as        *)
(* unsupported, so the renderer ignores nothing.                           *)
(***************************************************************************)
StyleOf(n, name) ==
    LET found == {i \in 1..Len(Template[n].style) : Template[n].style[i][1] = name}
    IN  IF found = {} THEN UNDEF ELSE Template[n].style[CHOOSE i \in found : TRUE][2]

Visited == 1..(IF og.node > Len(Template) THEN Len(Template) ELSE og.node)

C25_TemplateKeepsSatoriRules ==
    /\ og.ignored = {}
    /\ \A n \in Visited :
          /\ Template[n].tag = "img" =>
                IsInteger(StyleOf(n, "width")) /\ IsInteger(StyleOf(n, "height"))
          /\ (Template[n].tag # "#text" /\ Template[n].parent # 0) =>
                StyleOf(Template[n].parent, "display") = Str("flex")
          /\ \A m \in Visited :
                (/\ Template[n].tag = "span" /\ Template[m].tag = "span"
                 /\ Template[n].parent = Template[m].parent
                 /\ StyleOf(n, "color") # StyleOf(m, "color")) =>
                    StyleOf(Template[n].parent, "flexDirection") = Str("column")

C27_VerifyIsTotal ==
    vRet # "none" =>
        LET outcome == verifyWebhookSignatureOutcome(vArgs.rawBody, vArgs.signatureHeader,
                                                     vArgs.secret)
        IN  /\ outcome \in {"true", "false"}
            /\ vRet = outcome
            /\ verifyTryBlock(vArgs.rawBody, vArgs.signatureHeader, vArgs.secret)
                  # "RangeError"
            /\ ~vArgs.rawBody.buffer => vRet = "false"
            /\ (/\ vArgs.rawBody.buffer
                /\ Len(vArgs.signatureHeader)
                      # Len("sha256=" \o HmacSha256Hex(vArgs.secret, vArgs.rawBody.bytes)))
                  => vRet = "false"

C27_Witness ==
    /\ vRet = "false"
    /\ vArgs.rawBody = NotBuffer
    /\ vArgs.enc = "sha256=lower"
    /\ vArgs.key = vArgs.secret

(***************************************************************************)
(* C28.  A request whose content type is not application/json is never     *)
(* acknowledged with 200 and reaches no handler: it is answered 401 when   *)
(* a secret is configured and 400 when none is, and the callback does not  *)
(* throw.                                                                  *)
(***************************************************************************)
C28_OtherContentTypeRejected ==
    (Started /\ req.contentType # "application/json") =>
        /\ \A i \in 1..Len(Statuses) : Statuses[i] # 200
        /\ Invocations = <<>>
        /\ callback # "rejected"
        /\ pc \notin {"l222", "l225", "await225", "end229"}
        /\ pc \in Returns =>
              Statuses = <<IF Truthy(webhookSecret) THEN 401 ELSE 400>>

C28_Witness ==
    /\ pc = "ret212"
    /\ req.contentType = "text/plain"
    /\ req.bytes = B_user_create
    /\ ~Truthy(webhookSecret)
    /\ Statuses = <<400>>

(***************************************************************************)
(* C29.  After the signature step a request is accepted exactly when its   *)
(* body parses as JSON and payload.event.type is truthy: a missing type    *)
(* and the types "", 0, false and null get 400 and no handler; a truthy    *)
(* type that is not a string gets 200 and the log-only fallback.           *)
(***************************************************************************)
FalsyTypes == {UNDEF, NULL, Str(""), Num("0"), Bool("false")}

C29_AcceptedIffTruthyType ==
    (pc \in Returns /\ PastSignatureStep) =>
        IF BodyJSON.ok /\ BodyEventType \notin FalsyTypes
        THEN /\ Statuses = <<200>>
             /\ Len(Invocations) = 1
             /\ BodyEventType.t # "string" =>
                   /\ Calls = <<>>
                   /\ Logs = <<Console("log", "Unhandled event type", {"type", "id"})>>
        ELSE /\ Statuses = <<400>>
             /\ Invocations = <<>>

C29_Witness ==
    /\ pc = "end229"
    /\ req.bytes = B_type_number
    /\ Statuses = <<200>>
    /\ Calls = <<>>
    /\ Len(Invocations) = 1

(***************************************************************************)
(* C30.  login, loginMFA and loginPasswordless return ok, the one variant  *)
(* with token and refreshToken, exactly when the upstream status code is   *)
(* 200; for every other code the result has no token, and for loginMFA     *)
(* and loginPasswordless it is an error with the upstream code.            *)
(***************************************************************************)
C30_TokenOnlyOn200 ==
    lRet # NoAuthResult =>
        /\ lRet.status = "ok" <=> lArgs.statusCode = 200
        /\ lArgs.statusCode = 200 =>
              /\ lRet.token = lArgs.response.p.token
              /\ lRet.userId = lArgs.response.p.user.p.id
        /\ lArgs.statusCode # 200 =>
              /\ DOMAIN lRet \cap {"token", "refreshToken"} = {}
              /\ lArgs.fn \in {"loginMFA", "loginPasswordless"} =>
                    /\ lRet.status = "error"
                    /\ lRet.code = lArgs.statusCode

C30_Witness ==
    /\ lArgs.fn = "loginMFA"
    /\ lArgs.statusCode = 202
    /\ Get(lArgs.response, "token") = Str("jwt-1")
    /\ lRet.status = "error"
    /\ lRet.code = 202

=============================================================================
